---- MODULE Spec2Model ----
(***************************************************************************)
(* A model of install-qt-action (src/action/src/main.ts): the Inputs       *)
(* constructor, the cacheKey getter and the run() sequence of external     *)
(* calls, with its promise chain (catch -> exit 1, then -> exit 0).        *)
(*                                                                         *)
(* Strings are sequences of one-character strings, so that length, split,  *)
(* character replacement and iteration over a string are computed as the   *)
(* JavaScript code computes them.                                          *)
(***************************************************************************)
EXTENDS Integers, Sequences, FiniteSets, TLC

VARIABLES
  raw,              \* the action's inputs: input name -> the string core.getInput returns
  ambient,          \* process.platform, RUNNER_WORKSPACE, os.release(), the working
                    \* directory and the LD_LIBRARY_PATH / PKG_CONFIG_PATH of the process
  pc,               \* where run() and its promise chain stand
  inputs,           \* the Inputs object of run(), once constructed
  calls,            \* the external calls issued so far, in order, each with its outcome
  internalCacheHit, \* the local of run() (main.ts:342)
  toolIdx,          \* the index of the tool the loop of main.ts:467 installs next
  aqtRevision,      \* what getLatestCompatibleVersion returned
  autodesktop,      \* whether isAutodesktopSupported() answered true
  qtArchDirs,       \* the directories the glob of locateQtArchDir found
  outputs,          \* the core.setOutput calls, in order
  exported,         \* the core.exportVariable calls, in order
  addedPaths,       \* the core.addPath calls, in order
  warnings,         \* the core.warning calls, in order
  failures,         \* the core.setFailed calls, in order
  exitCode          \* the status process.exit was called with, -1 while running

vars == <<raw, ambient, pc, inputs, calls, internalCacheHit, toolIdx,
          aqtRevision, autodesktop, qtArchDirs, outputs, exported, addedPaths,
          warnings, failures, exitCode>>

(***************************************************************************)
(* String helpers (JavaScript String / Array built-ins used by main.ts).   *)
(***************************************************************************)

\* n copies of the character c
Rep(c, n) == [i \in 1..n |-> c]

\* String.prototype.replace(/c/g, d)
ReplaceAll(s, c, d) == [i \in 1..Len(s) |-> IF s[i] = c THEN d ELSE s[i]]

\* String.prototype.replace("c", "") : the first occurrence only
RemoveFirst(s, c) ==
  IF \E i \in 1..Len(s) : s[i] = c
  THEN LET k == CHOOSE i \in 1..Len(s) : s[i] = c /\ \A j \in 1..(i - 1) : s[j] # c
       IN  SubSeq(s, 1, k - 1) \o SubSeq(s, k + 1, Len(s))
  ELSE s

\* String.prototype.includes(c) for a one-character needle
IncludesChar(s, c) == \E i \in 1..Len(s) : s[i] = c

\* String.prototype.startsWith(p)
StartsWith(s, p) == Len(s) >= Len(p) /\ SubSeq(s, 1, Len(p)) = p

\* String.prototype.includes(p)
Includes(s, p) == \E i \in 0..(Len(s) - Len(p)) : SubSeq(s, i + 1, i + Len(p)) = p

RECURSIVE SplitFrom(_, _, _)
\* the pieces of s after position `from`, cut at every occurrence of sep
SplitFrom(s, sep, from) ==
  IF \E i \in from..Len(s) : s[i] = sep
  THEN LET k == CHOOSE i \in from..Len(s) : s[i] = sep /\ \A j \in from..(i - 1) : s[j] # sep
       IN  <<SubSeq(s, from, k - 1)>> \o SplitFrom(s, sep, k + 1)
  ELSE <<SubSeq(s, from, Len(s))>>

\* String.prototype.split(sep) for a one-character separator: "a  b" gives
\* "a", "", "b" and "" gives one empty piece
Split(s, sep) == SplitFrom(s, sep, 1)

RECURSIVE Join(_, _)
\* Array.prototype.join(sep)
Join(ss, sep) ==
  IF ss = <<>> THEN <<>>
  ELSE IF Len(ss) = 1 THEN Head(ss)
  ELSE Head(ss) \o <<sep>> \o Join(Tail(ss), sep)

UpperCase == <<"A", "B", "C", "D", "E", "F", "G", "H", "I", "J", "K", "L", "M",
               "N", "O", "P", "Q", "R", "S", "T", "U", "V", "W", "X", "Y", "Z">>
LowerCase == <<"a", "b", "c", "d", "e", "f", "g", "h", "i", "j", "k", "l", "m",
               "n", "o", "p", "q", "r", "s", "t", "u", "v", "w", "x", "y", "z">>

\* String.prototype.toLowerCase()
toLowerCase(s) ==
  [i \in 1..Len(s) |->
     IF \E k \in 1..26 : UpperCase[k] = s[i]
     THEN LowerCase[CHOOSE k \in 1..26 : UpperCase[k] = s[i]]
     ELSE s[i]]

Digits == <<"0", "1", "2", "3", "4", "5", "6", "7", "8", "9">>
IsDigit(c) == \E k \in 1..10 : Digits[k] = c
DigitVal(c) == (CHOOSE k \in 1..10 : Digits[k] = c) - 1

RECURSIVE ParseInt(_)
\* parseInt(s, 10) of a non-empty string of digits
ParseInt(s) ==
  IF s = <<>> THEN 0
  ELSE ParseInt(SubSeq(s, 1, Len(s) - 1)) * 10 + DigitVal(s[Len(s)])

(***************************************************************************)
(* compare-versions, as main.ts:14-16 calls it: compare(v1, v2, op).       *)
(* A version is valid when, after an optional run of the prefix characters *)
(* v ^ ~ < > =, it is one to four dot-separated parts, the first a run of  *)
(* digits, the others a run of digits, "x" or "*"; the library throws on   *)
(* any other string.  Pre-release and build suffixes are not modelled.     *)
(***************************************************************************)

VersionPrefixChars == {"v", "^", "~", "<", ">", "="}

RECURSIVE StripVersionPrefix(_)
StripVersionPrefix(v) ==
  IF v # <<>> /\ Head(v) \in VersionPrefixChars THEN StripVersionPrefix(Tail(v)) ELSE v

IsNumber(seg) == seg # <<>> /\ \A i \in 1..Len(seg) : IsDigit(seg[i])
IsWildcard(seg) == seg = <<"*">> \/ seg = <<"x">> \/ seg = <<"X">>

VersionSegments(v) == Split(StripVersionPrefix(v), ".")

\* validate(v): whether v matches the library's semver pattern
IsValidVersion(v) ==
  LET segs == VersionSegments(v)
  IN  /\ Len(segs) \in 1..4
      /\ IsNumber(segs[1])
      /\ \A i \in 2..Len(segs) : IsNumber(segs[i]) \/ IsWildcard(segs[i])

\* compareSegments: parts are compared left to right, a missing part counts
\* as 0 and a wildcard part equals anything; -1, 0 or 1
RECURSIVE CompareSegments(_, _, _)
CompareSegments(a, b, i) ==
  IF i > Len(a) /\ i > Len(b) THEN 0
  ELSE LET ap == IF i <= Len(a) THEN a[i] ELSE <<"0">>
           bp == IF i <= Len(b) THEN b[i] ELSE <<"0">>
       IN  IF IsWildcard(ap) \/ IsWildcard(bp) THEN CompareSegments(a, b, i + 1)
           ELSE IF ParseInt(ap) > ParseInt(bp) THEN 1
           ELSE IF ParseInt(ap) < ParseInt(bp) THEN -1
           ELSE CompareSegments(a, b, i + 1)

\* the mutant of VersionOrder: the two strings compared character by
\* character (lexical order), as a plain string comparison would
RECURSIVE LexicalOrder(_, _)
LexicalOrder(v1, v2) ==
  IF v1 = <<>> /\ v2 = <<>> THEN 0
  ELSE IF v1 = <<>> THEN -1
  ELSE IF v2 = <<>> THEN 1
  ELSE IF Head(v1) = Head(v2) THEN LexicalOrder(Tail(v1), Tail(v2))
  ELSE LET rank(c) == IF IsDigit(c) THEN DigitVal(c) + 1 ELSE IF c = "." THEN 0 ELSE 11
       IN  IF rank(Head(v1)) < rank(Head(v2)) THEN -1 ELSE 1

\* compareVersions(v1, v2) of the library: -1, 0 or 1 for two valid versions
VersionOrder(v1, v2) == CompareSegments(VersionSegments(v1), VersionSegments(v2), 1)

\* whether compareVersions(v1, op, v2) throws (an argument is no version)
compareThrows(v1, v2) == ~IsValidVersion(v1) \/ ~IsValidVersion(v2)

\* compareVersions(v1, op, v2) of main.ts, for the two operators it is used with
compareVersions(v1, op, v2) ==
  CASE op = ">=" -> VersionOrder(v1, v2) \in {0, 1}
    [] op = "<"  -> VersionOrder(v1, v2) = -1

(***************************************************************************)
(* path.resolve (POSIX): the first absolute argument from the right, or    *)
(* the working directory, followed by the later arguments, normalised.     *)
(***************************************************************************)

RECURSIVE NormalizeParts(_, _)
\* the path parts with "" and "." dropped and ".." removing the part before
NormalizeParts(parts, acc) ==
  IF parts = <<>> THEN acc
  ELSE LET h == Head(parts)
       IN  IF h = <<>> \/ h = <<".">> THEN NormalizeParts(Tail(parts), acc)
           ELSE IF h = <<".", ".">>
                THEN NormalizeParts(Tail(parts),
                                    IF acc = <<>> THEN acc ELSE SubSeq(acc, 1, Len(acc) - 1))
           ELSE NormalizeParts(Tail(parts), Append(acc, h))

\* path.resolve(base, name) in the working directory cwd
pathResolve(cwd, base, name) ==
  LET start == IF base # <<>> /\ Head(base) = "/" THEN base ELSE cwd \o <<"/">> \o base
      parts == NormalizeParts(Split(start \o <<"/">> \o name, "/"), <<>>)
  IN  <<"/">> \o Join(parts, "/")

(***************************************************************************)
(* class Inputs (main.ts:99-293).                                          *)
(***************************************************************************)

s_windows == <<"w", "i", "n", "d", "o", "w", "s">>
s_mac == <<"m", "a", "c">>
s_linux == <<"l", "i", "n", "u", "x">>
s_desktop == <<"d", "e", "s", "k", "t", "o", "p">>
s_android == <<"a", "n", "d", "r", "o", "i", "d">>
s_ios == <<"i", "o", "s">>
s_none == <<"n", "o", "n", "e">>
s_singlethread == <<"s", "i", "n", "g", "l", "e", "t", "h", "r", "e", "a", "d">>
s_multithread == <<"m", "u", "l", "t", "i", "t", "h", "r", "e", "a", "d">>
s_true == <<"t", "r", "u", "e">>
s_nosudo == <<"n", "o", "s", "u", "d", "o">>
s_android_armv7 == <<"a", "n", "d", "r", "o", "i", "d", "_", "a", "r", "m", "v", "7">>
s_win64_msvc2022_64 ==
  <<"w", "i", "n", "6", "4", "_", "m", "s", "v", "c", "2", "0", "2", "2", "_", "6", "4">>
s_win64_msvc2019_64 ==
  <<"w", "i", "n", "6", "4", "_", "m", "s", "v", "c", "2", "0", "1", "9", "_", "6", "4">>
s_win64_msvc2013_64 ==
  <<"w", "i", "n", "6", "4", "_", "m", "s", "v", "c", "2", "0", "1", "3", "_", "6", "4">>
s_win64_msvc2015_64 ==
  <<"w", "i", "n", "6", "4", "_", "m", "s", "v", "c", "2", "0", "1", "5", "_", "6", "4">>
s_win64_msvc2017_64 ==
  <<"w", "i", "n", "6", "4", "_", "m", "s", "v", "c", "2", "0", "1", "7", "_", "6", "4">>
v5_14_0 == <<"5", ".", "1", "4", ".", "0">>
v6_0_0 == <<"6", ".", "0", ".", "0">>
v6_8_0 == <<"6", ".", "8", ".", "0">>
v5_15_0 == <<"5", ".", "1", "5", ".", "0">>
v5_6_0 == <<"5", ".", "6", ".", "0">>
v5_9_0 == <<"5", ".", "9", ".", "0">>
v6_5_0 == <<"6", ".", "5", ".", "0">>
v6_7_0 == <<"6", ".", "7", ".", "0">>

\* Inputs.getBoolInput(name), given the value core.getInput returned
getBoolInput(value) == toLowerCase(value) = s_true

\* the mutant of getStringArrayInput: the content is split even when empty,
\* which gives one empty element
getStringArrayInputAlwaysSplit(content) == Split(content, " ")

\* Inputs.getStringArrayInput(name), given the value core.getInput returned
getStringArrayInput(content) == IF content # <<>> THEN Split(content, " ") ELSE <<>>

\* the host of the constructor when the host input is empty
\* (switch on process.platform)
hostOfPlatform(platform) ==
  CASE platform = "win32"  -> s_windows
    [] platform = "darwin" -> s_mac
    [] OTHER               -> s_linux

\* whether the arch defaulting of the constructor compares the version at
\* all (it does only when the arch input is empty and the target is android
\* or the host windows)
archComparesVersion(host, target, archInput) ==
  archInput = <<>> /\ (target = s_android \/ host = s_windows)

\* the mutant of defaultArch: the windows ladder tested before the android rule
defaultArchWindowsFirst(host, target, version, archInput) ==
  IF archInput # <<>> THEN archInput
  ELSE IF host = s_windows
  THEN IF compareVersions(version, ">=", v6_8_0) THEN s_win64_msvc2022_64
       ELSE IF compareVersions(version, ">=", v5_15_0) THEN s_win64_msvc2019_64
       ELSE IF compareVersions(version, "<", v5_6_0) THEN s_win64_msvc2013_64
       ELSE IF compareVersions(version, "<", v5_9_0) THEN s_win64_msvc2015_64
       ELSE s_win64_msvc2017_64
  ELSE IF target = s_android
  THEN IF compareVersions(version, ">=", v5_14_0) /\ compareVersions(version, "<", v6_0_0)
       THEN s_android
       ELSE s_android_armv7
  ELSE archInput

\* the mutant of defaultArch: the msvc2019 rung of the ladder set at 5.14.0
defaultArchFrom514(host, target, version, archInput) ==
  IF archInput # <<>> THEN archInput
  ELSE IF target = s_android
  THEN IF compareVersions(version, ">=", v5_14_0) /\ compareVersions(version, "<", v6_0_0)
       THEN s_android
       ELSE s_android_armv7
  ELSE IF host = s_windows
  THEN IF compareVersions(version, ">=", v6_8_0) THEN s_win64_msvc2022_64
       ELSE IF compareVersions(version, ">=", v5_14_0) THEN s_win64_msvc2019_64
       ELSE IF compareVersions(version, "<", v5_6_0) THEN s_win64_msvc2013_64
       ELSE IF compareVersions(version, "<", v5_9_0) THEN s_win64_msvc2015_64
       ELSE s_win64_msvc2017_64
  ELSE archInput

\* this.arch as the constructor leaves it, for a version that compares
defaultArch(host, target, version, archInput) ==
  IF archInput # <<>> THEN archInput
  ELSE IF target = s_android
  THEN IF compareVersions(version, ">=", v5_14_0) /\ compareVersions(version, "<", v6_0_0)
       THEN s_android
       ELSE s_android_armv7
  ELSE IF host = s_windows
  THEN IF compareVersions(version, ">=", v6_8_0) THEN s_win64_msvc2022_64
       ELSE IF compareVersions(version, ">=", v5_15_0) THEN s_win64_msvc2019_64
       ELSE IF compareVersions(version, "<", v5_6_0) THEN s_win64_msvc2013_64
       ELSE IF compareVersions(version, "<", v5_9_0) THEN s_win64_msvc2015_64
       ELSE s_win64_msvc2017_64
  ELSE archInput

\* the value of the install-deps input as the constructor keeps it:
\* "nosudo", or the boolean as "true" / "false"
installDepsOf(value) ==
  IF toLowerCase(value) = s_nosudo THEN "nosudo"
  ELSE IF toLowerCase(value) = s_true THEN "true" ELSE "false"

\* the mutant of constructorError: the dir check left out
constructorErrorDirUnchecked(in, amb) ==
  LET host == IF in["host"] = <<>> THEN hostOfPlatform(amb.platform) ELSE in["host"]
  IN  IF in["host"] # <<>> /\ in["host"] \notin {s_windows, s_mac, s_linux} THEN "host"
      ELSE IF in["target"] \notin {s_desktop, s_android, s_ios} THEN "target"
      ELSE IF in["wasm"] \notin {s_none, s_singlethread, s_multithread} THEN "wasm"
      ELSE IF archComparesVersion(host, in["target"], in["arch"])
              /\ compareThrows(in["version"], v5_14_0) THEN "semver"
      ELSE ""

\* the error the constructor throws, "" when it throws none: the checks in
\* the order of the code (host, target, wasm, the version comparisons of the
\* arch defaulting, dir)
constructorError(in, amb) ==
  LET host == IF in["host"] = <<>> THEN hostOfPlatform(amb.platform) ELSE in["host"]
      dir  == IF in["dir"] # <<>> THEN in["dir"] ELSE amb.RUNNER_WORKSPACE
  IN  IF in["host"] # <<>> /\ in["host"] \notin {s_windows, s_mac, s_linux} THEN "host"
      ELSE IF in["target"] \notin {s_desktop, s_android, s_ios} THEN "target"
      ELSE IF in["wasm"] \notin {s_none, s_singlethread, s_multithread} THEN "wasm"
      ELSE IF archComparesVersion(host, in["target"], in["arch"])
              /\ compareThrows(in["version"], v5_14_0) THEN "semver"
      ELSE IF dir = <<>> THEN "dir"
      ELSE ""

\* the Inputs object a constructor that does not throw builds
newInputs(in, amb) ==
  LET host == IF in["host"] = <<>> THEN hostOfPlatform(amb.platform) ELSE in["host"]
      dir  == IF in["dir"] # <<>> THEN in["dir"] ELSE amb.RUNNER_WORKSPACE
  IN  [ host |-> host,
        target |-> in["target"],
        wasm |-> in["wasm"],
        version |-> in["version"],
        arch |-> defaultArch(host, in["target"], in["version"], in["arch"]),
        dir |-> pathResolve(amb.cwd, dir, <<"Q", "t">>),
        modules |-> getStringArrayInput(in["modules"]),
        archives |-> getStringArrayInput(in["archives"]),
        tools |-> LET ts == getStringArrayInput(in["tools"])
                  IN  [i \in 1..Len(ts) |-> ReplaceAll(ts[i], ",", " ")],
        addToolsToPath |-> getBoolInput(in["add-tools-to-path"]),
        extra |-> getStringArrayInput(in["extra"]),
        installDeps |-> installDepsOf(in["install-deps"]),
        cache |-> getBoolInput(in["cache"]),
        cacheKeyPrefix |-> in["cache-key-prefix"],
        isInstallQtBinaries |->
          ~getBoolInput(in["tools-only"]) /\ ~getBoolInput(in["no-qt-binaries"]),
        setEnv |-> getBoolInput(in["set-env"]),
        aqtSource |-> in["aqtsource"],
        aqtVersion |-> in["aqtversion"],
        py7zrVersion |-> in["py7zrversion"],
        src |-> getBoolInput(in["source"]),
        srcArchives |-> getStringArrayInput(in["src-archives"]),
        doc |-> getBoolInput(in["documentation"]),
        docModules |-> getStringArrayInput(in["doc-modules"]),
        docArchives |-> getStringArrayInput(in["doc-archives"]),
        example |-> getBoolInput(in["examples"]),
        exampleModules |-> getStringArrayInput(in["example-modules"]),
        exampleArchives |-> getStringArrayInput(in["example-archives"]) ]

\* the array of strings `for (const keyString of keyStringArray)` walks when
\* keyStringArray is a string: its characters, one string each
charsOf(s) == [i \in 1..Len(s) |-> <<s[i]>>]

\* the mutant of keyStringArrays: a token for isInstallQtBinaries among the values
keyStringArraysWithBinaries(in, osRelease) ==
  << << in.host, osRelease, in.target, in.wasm, in.arch, in.version, in.dir,
        in.py7zrVersion, in.aqtSource, in.aqtVersion,
        IF in.isInstallQtBinaries THEN <<"q", "t">> ELSE <<>> >>,
     in.modules, in.archives, in.extra, in.tools,
     charsOf(IF in.src THEN <<"s", "r", "c">> ELSE <<>>),
     in.srcArchives,
     charsOf(IF in.doc THEN <<"d", "o", "c">> ELSE <<>>),
     in.docArchives, in.docModules,
     charsOf(IF in.example THEN <<"e", "x", "a", "m", "p", "l", "e">> ELSE <<>>),
     in.exampleArchives, in.exampleModules >>

\* the thirteen values the outer loop of cacheKey walks (main.ts:245-270); an
\* array is walked by element and a string by character
keyStringArrays(in, osRelease) ==
  << << in.host, osRelease, in.target, in.wasm, in.arch, in.version, in.dir,
        in.py7zrVersion, in.aqtSource, in.aqtVersion >>,
     in.modules, in.archives, in.extra, in.tools,
     charsOf(IF in.src THEN <<"s", "r", "c">> ELSE <<>>),
     in.srcArchives,
     charsOf(IF in.doc THEN <<"d", "o", "c">> ELSE <<>>),
     in.docArchives, in.docModules,
     charsOf(IF in.example THEN <<"e", "x", "a", "m", "p", "l", "e">> ELSE <<>>),
     in.exampleArchives, in.exampleModules >>

RECURSIVE appendKeyStrings(_, _)
\* the inner loop: "-" and the string appended for every non-empty string
appendKeyStrings(key, strings) ==
  IF strings = <<>> THEN key
  ELSE appendKeyStrings(IF Head(strings) # <<>> THEN key \o <<"-">> \o Head(strings) ELSE key,
                        Tail(strings))

RECURSIVE appendKeyArrays(_, _)
\* the outer loop
appendKeyArrays(key, arrays) ==
  IF arrays = <<>> THEN key
  ELSE appendKeyArrays(appendKeyStrings(key, Head(arrays)), Tail(arrays))

\* cacheKey as the loops leave it (main.ts:244-276)
assembledKey(in, osRelease) ==
  appendKeyArrays(in.cacheKeyPrefix, keyStringArrays(in, osRelease))

maxKeyLength == 512

HexDigits == <<"0", "1", "2", "3", "4", "5", "6", "7", "8", "9", "a", "b", "c", "d", "e", "f">>

\* crypto.createHash("sha256").update(s).digest("hex"): 64 lowercase
\* hexadecimal characters that depend on s alone (the digest itself is
\* replaced by a checksum of the length of s and the places of its "-")
sha256Hex(s) ==
  LET dashes == Cardinality({i \in 1..Len(s) : s[i] = "-"})
  IN  [i \in 1..64 |-> HexDigits[((Len(s) + i * (dashes + 1)) % 16) + 1]]

\* main.ts:278-283: the key, or the prefix and the digest of the key when
\* the key is longer than maxKeyLength
boundedKey(prefix, key) ==
  IF Len(key) > maxKeyLength
  THEN prefix \o <<"-">> \o sha256Hex(key)
  ELSE key

\* get cacheKey() (main.ts:243-284)
cacheKey(in, osRelease) ==
  boundedKey(in.cacheKeyPrefix, ReplaceAll(assembledKey(in, osRelease), ",", "-"))

(***************************************************************************)
(* Helpers of run() (main.ts:18-97).                                       *)
(***************************************************************************)

\* flaggedList(flag, listArgs)
flaggedList(flag, listArgs) == IF Len(listArgs) > 0 THEN <<flag>> \o listArgs ELSE <<>>

\* path.basename of a normalised absolute path
basename(path) == LET parts == Split(path, "/") IN parts[Len(parts)]

\* path.resolve(path, "..")
dirname(path) == LET parts == Split(path, "/")
                 IN  IF Len(parts) <= 2 THEN <<"/">>
                     ELSE Join(SubSeq(parts, 1, Len(parts) - 1), "/")

\* whether s is stem followed by zero or more copies of the character last
\* (the regular expression stem last* between ^ and $)
MatchesStarred(s, stem, last) ==
  /\ StartsWith(s, stem)
  /\ \A i \in (Len(stem) + 1)..Len(s) : s[i] = last

\* versionDir.match(/^6\.\d+\.\d+$/)
MatchesQt6Version(versionDir) ==
  LET segs == Split(versionDir, ".")
  IN  Len(segs) = 3 /\ segs[1] = <<"6">> /\ IsNumber(segs[2]) /\ IsNumber(segs[3])

\* archDir.match(/^(android*|ios|wasm*|msvc*_arm64)$/): in this pattern a *
\* repeats the one character before it
MatchesParallelArch(archDir) ==
  \/ MatchesStarred(archDir, <<"a", "n", "d", "r", "o", "i">>, "d")
  \/ archDir = <<"i", "o", "s">>
  \/ MatchesStarred(archDir, <<"w", "a", "s">>, "m")
  \/ \E k \in 0..Len(archDir) :
       /\ MatchesStarred(SubSeq(archDir, 1, k), <<"m", "s", "v">>, "c")
       /\ SubSeq(archDir, k + 1, Len(archDir)) = <<"_", "a", "r", "m", "6", "4">>

\* the filter of locateQtArchDir (main.ts:78-82)
requiresParallelDesktop(dirs) ==
  SelectSeq(dirs, LAMBDA archPath :
              /\ MatchesQt6Version(basename(dirname(archPath)))
              /\ MatchesParallelArch(basename(archPath)))

\* whether locateQtArchDir throws: the glob found nothing
locateThrows(dirs) == Len(requiresParallelDesktop(dirs)) = 0 /\ Len(dirs) = 0

\* locateQtArchDir when it does not throw
locateQtArchDir(dirs) ==
  IF Len(requiresParallelDesktop(dirs)) > 0 THEN requiresParallelDesktop(dirs)[1]
  ELSE dirs[1]

\* the value of isAutodesktopSupported for the version `aqt version` reports
\* (<<>> when the output does not match)
isAutodesktopSupported(reported) ==
  IF reported = <<>> THEN FALSE
  ELSE compareVersions(reported, ">=", <<"3", ".", "0", ".", "0">>) \/ StartsWith(reported, <<"3", ".", "2", ".">>)

\* version.replace(/[=]/g, "").replace("*", "")
targetVersionOf(version) ==
  RemoveFirst(SelectSeq(version, LAMBDA c : c # "="), "*")

\* line.match(/refs\/tags\/v(\d+\.\d+\.\d+)$/)?.[1] for the tag name of a
\* line of git ls-remote (the text after refs/tags/): <<>> when no match
tagVersionOf(tag) ==
  LET segs == Split(Tail(tag), ".")
  IN  IF tag # <<>> /\ Head(tag) = "v" /\ Len(segs) = 3
         /\ \A i \in 1..3 : IsNumber(segs[i])
      THEN Tail(tag) ELSE <<>>

\* the versions of the tags that start with the target version
matchingVersions(tags, targetVersion) ==
  LET vs == [i \in 1..Len(tags) |-> tagVersionOf(tags[i])]
  IN  SelectSeq(vs, LAMBDA v : v # <<>> /\ StartsWith(v, targetVersion))

\* versions[0] after the descending sort: a greatest of the versions
highestVersion(versions) ==
  versions[CHOOSE i \in 1..Len(versions) :
             \A j \in 1..Len(versions) : VersionOrder(versions[i], versions[j]) >= 0]

\* getLatestCompatibleVersion(version) when git ls-remote printed the tags
latestCompatibleVersion(version, tags) ==
  LET versions == matchingVersions(tags, targetVersionOf(version))
  IN  IF Len(versions) > 0 THEN highestVersion(versions)
      ELSE targetVersionOf(version) \o <<".", "0">>

\* getLatestCompatibleVersion(version) when git ls-remote failed (the catch)
fallbackVersion(version) == targetVersionOf(version) \o <<".", "0">>

\* the packages of main.ts:302-328
dependenciesOf(version) ==
  << <<"b", "u", "i", "l", "d", "-", "e", "s", "s", "e", "n", "t", "i", "a", "l">>, <<"l", "i", "b", "g", "l", "1", "-", "m", "e", "s", "a", "-", "d", "e", "v">>, <<"l", "i", "b", "g", "s", "t", "r", "e", "a", "m", "e", "r", "-", "g", "l", "1", ".", "0", "-", "0">>,
     <<"l", "i", "b", "p", "u", "l", "s", "e", "-", "d", "e", "v">>, <<"l", "i", "b", "x", "c", "b", "-", "g", "l", "x", "0">>, <<"l", "i", "b", "x", "c", "b", "-", "i", "c", "c", "c", "m", "4">>, <<"l", "i", "b", "x", "c", "b", "-", "i", "m", "a", "g", "e", "0">>,
     <<"l", "i", "b", "x", "c", "b", "-", "k", "e", "y", "s", "y", "m", "s", "1">>, <<"l", "i", "b", "x", "c", "b", "-", "r", "a", "n", "d", "r", "0">>, <<"l", "i", "b", "x", "c", "b", "-", "r", "e", "n", "d", "e", "r", "-", "u", "t", "i", "l", "0">>,
     <<"l", "i", "b", "x", "c", "b", "-", "r", "e", "n", "d", "e", "r", "0">>, <<"l", "i", "b", "x", "c", "b", "-", "s", "h", "a", "p", "e", "0">>, <<"l", "i", "b", "x", "c", "b", "-", "s", "h", "m", "0">>, <<"l", "i", "b", "x", "c", "b", "-", "s", "y", "n", "c", "1">>,
     <<"l", "i", "b", "x", "c", "b", "-", "u", "t", "i", "l", "1">>, <<"l", "i", "b", "x", "c", "b", "-", "x", "f", "i", "x", "e", "s", "0">>, <<"l", "i", "b", "x", "c", "b", "-", "x", "i", "n", "e", "r", "a", "m", "a", "0">>, <<"l", "i", "b", "x", "c", "b", "1">>,
     <<"l", "i", "b", "x", "k", "b", "c", "o", "m", "m", "o", "n", "-", "d", "e", "v">>, <<"l", "i", "b", "x", "k", "b", "c", "o", "m", "m", "o", "n", "-", "x", "1", "1", "-", "0">>, <<"l", "i", "b", "x", "c", "b", "-", "x", "k", "b", "-", "d", "e", "v">> >>
  \o (IF compareVersions(version, ">=", v6_5_0) THEN << <<"l", "i", "b", "x", "c", "b", "-", "c", "u", "r", "s", "o", "r", "0">> >> ELSE <<>>)

\* usingKidevFork (main.ts:423-424)
usingKidevFork(in) ==
  Includes(in.aqtSource, <<"K", "i", "d", "e", "v", "/", "a", "q", "t", "i", "n", "s", "t", "a", "l", "l">>) \/ in.aqtVersion = <<"=", "=", "3", ".", "2", ".", "*">>

\* the mutant of addsWasmFlag: the Qt version is not compared
addsWasmFlagAnyVersion(in) ==
  in.wasm # s_none /\ usingKidevFork(in)

\* whether main.ts:426-427 pushes --wasm
addsWasmFlag(in) ==
  in.wasm # s_none /\ compareVersions(in.version, ">=", v6_7_0) /\ usingKidevFork(in)

\* the warnings of main.ts:428-434
wasmWarnings(in) ==
  IF in.wasm = s_none \/ addsWasmFlag(in) THEN <<>>
  ELSE IF ~usingKidevFork(in) THEN <<"wasm-needs-fork">>
  ELSE <<"wasm-needs-qt-6.7">>

\* qtArgs of the install-qt call (main.ts:410-437)
installQtArgs(in, autodesktopFlag) ==
  <<in.host, in.target, in.version>>
  \o (IF in.arch # <<>> THEN <<in.arch>> ELSE <<>>)
  \o (IF autodesktopFlag THEN << <<"-", "-", "a", "u", "t", "o", "d", "e", "s", "k", "t", "o", "p">> >> ELSE <<>>)
  \o << <<"-", "-", "o", "u", "t", "p", "u", "t", "d", "i", "r">>, in.dir >>
  \o flaggedList(<<"-", "-", "m", "o", "d", "u", "l", "e", "s">>, in.modules)
  \o flaggedList(<<"-", "-", "a", "r", "c", "h", "i", "v", "e", "s">>, in.archives)
  \o (IF addsWasmFlag(in) THEN << <<"-", "-", "w", "a", "s", "m">>, in.wasm >> ELSE <<>>)
  \o in.extra

\* qtArgs of installSrcDocExamples (main.ts:446-453)
installFlavorArgs(in, archives, modules) ==
  <<in.host, in.version, <<"-", "-", "o", "u", "t", "p", "u", "t", "d", "i", "r">>, in.dir>>
  \o flaggedList(<<"-", "-", "a", "r", "c", "h", "i", "v", "e", "s">>, archives)
  \o flaggedList(<<"-", "-", "m", "o", "d", "u", "l", "e", "s">>, modules)
  \o in.extra

\* toolArgs (main.ts:468-475)
installToolArgs(in, tool) ==
  <<in.host, in.target, tool, <<"-", "-", "o", "u", "t", "p", "u", "t", "d", "i", "r">>, in.dir>> \o in.extra

\* the mutant of pipAqtArgs: the wildcard of aqtVersion tested before aqtSource
pipAqtArgsVersionFirst(in, revision) ==
  IF IncludesChar(in.aqtVersion, "*")
  THEN << (<<"\"">> \o <<"g", "i", "t", "+", "h", "t", "t", "p", "s", ":", "/", "/", "g", "i", "t", "h", "u", "b", ".", "c", "o", "m", "/", "K", "i", "d", "e", "v", "/", "a", "q", "t", "i", "n", "s", "t", "a", "l", "l", ".", "g", "i", "t", "@", "v">>) \o revision \o <<"\"">> >>
  ELSE IF Len(in.aqtSource) > 0 THEN << <<"\"">> \o in.aqtSource \o <<"\"">> >>
  ELSE << (<<"\"">> \o <<"a", "q", "t", "i", "n", "s", "t", "a", "l", "l">>) \o in.aqtVersion \o <<"\"">> >>

\* the argument of the pip install of aqtinstall (main.ts:391-405)
pipAqtArgs(in, revision) ==
  IF Len(in.aqtSource) > 0 THEN << <<"\"">> \o in.aqtSource \o <<"\"">> >>
  ELSE IF IncludesChar(in.aqtVersion, "*")
  THEN << (<<"\"">> \o <<"g", "i", "t", "+", "h", "t", "t", "p", "s", ":", "/", "/", "g", "i", "t", "h", "u", "b", ".", "c", "o", "m", "/", "K", "i", "d", "e", "v", "/", "a", "q", "t", "i", "n", "s", "t", "a", "l", "l", ".", "g", "i", "t", "@", "v">>) \o revision \o <<"\"">> >>
  ELSE << (<<"\"">> \o <<"a", "q", "t", "i", "n", "s", "t", "a", "l", "l">>) \o in.aqtVersion \o <<"\"">> >>

(***************************************************************************)
(* run() and its promise chain (main.ts:295-526).  Every await of an       *)
(* external call is one step: the call is issued and either returns or     *)
(* throws; a throw anywhere in run() rejects its promise, which the catch  *)
(* handler of main.ts:516 receives.                                        *)
(***************************************************************************)

NoInputs == [unset |-> TRUE]

\* one external call of the log
Call(cmd, args) == [cmd |-> cmd, args |-> args, ok |-> TRUE]

\* the mutant of Await: the outcome of the call is ignored and run() goes on
AwaitIgnoringFailure(call, next) ==
  \E ok \in BOOLEAN :
    /\ calls' = Append(calls, [call EXCEPT !.ok = ok])
    /\ pc' = next

\* await of an external call (exec, getExecOutput, restoreCache, saveCache):
\* the call is issued; run() goes on at `next` when it returns and rejects
\* when it throws
Await(call, next) ==
  \E ok \in BOOLEAN :
    /\ calls' = Append(calls, [call EXCEPT !.ok = ok])
    /\ pc' = IF ok THEN next ELSE "catch"

\* a step that issues no call
Skip(next) == calls' = calls /\ pc' = next

\* a throw of run() outside an external call
Throw == calls' = calls /\ pc' = "catch"

\* main.ts:296: const inputs = new Inputs()
Construct ==
  /\ pc = "start"
  /\ IF constructorError(raw, ambient) # ""
     THEN /\ pc' = "catch"
          /\ inputs' = inputs
     ELSE /\ pc' = "deps"
          /\ inputs' = newInputs(raw, ambient)
  /\ UNCHANGED <<raw, ambient, calls, internalCacheHit, toolIdx, aqtRevision,
                 autodesktop, qtArchDirs, outputs, exported, addedPaths,
                 warnings, failures, exitCode>>

\* main.ts:300-333/336: the dependency list and apt-get update
AptUpdate ==
  /\ pc = "deps"
  /\ IF ambient.platform = "linux" /\ inputs.installDeps # "false"
     THEN IF compareThrows(inputs.version, v6_5_0)
          THEN Throw
          ELSE Await(Call(IF inputs.installDeps = "nosudo" THEN "apt-get update"
                          ELSE "sudo apt-get update", <<>>),
                     "aptInstall")
     ELSE Skip("restore")
  /\ UNCHANGED <<raw, ambient, inputs, internalCacheHit, toolIdx, aqtRevision,
                 autodesktop, qtArchDirs, outputs, exported, addedPaths,
                 warnings, failures, exitCode>>

\* main.ts:334/337: apt-get install
AptInstall ==
  /\ pc = "aptInstall"
  /\ Await(Call(IF inputs.installDeps = "nosudo" THEN "apt-get install"
                ELSE "sudo apt-get install", dependenciesOf(inputs.version)),
           "restore")
  /\ UNCHANGED <<raw, ambient, inputs, internalCacheHit, toolIdx, aqtRevision,
                 autodesktop, qtArchDirs, outputs, exported, addedPaths,
                 warnings, failures, exitCode>>

\* main.ts:342-351: the cache lookup
RestoreCache ==
  /\ pc = "restore"
  /\ IF inputs.cache
     THEN \E outcome \in {"hit", "miss", "throw"} :
            /\ calls' = Append(calls,
                 [Call("restoreCache", <<inputs.dir, cacheKey(inputs, ambient.osRelease)>>)
                    EXCEPT !.ok = (outcome # "throw")])
            /\ internalCacheHit' = (outcome = "hit")
            /\ pc' = CASE outcome = "hit"   -> "save"
                       [] outcome = "miss"  -> "pip"
                       [] outcome = "throw" -> "catch"
     ELSE Skip("pip") /\ internalCacheHit' = internalCacheHit
  /\ UNCHANGED <<raw, ambient, inputs, toolIdx, aqtRevision, autodesktop,
                 qtArchDirs, outputs, exported, addedPaths, warnings, failures,
                 exitCode>>

\* main.ts:389: pip install setuptools wheel py7zr
PipPy7zr ==
  /\ pc = "pip"
  /\ Await(Call("pip install",
                << <<"s", "e", "t", "u", "p", "t", "o", "o", "l", "s">>, <<"w", "h", "e", "e", "l">>,
                   <<"\"">> \o <<"p", "y", "7", "z", "r">> \o inputs.py7zrVersion \o <<"\"">> >>),
           IF Len(inputs.aqtSource) = 0 /\ IncludesChar(inputs.aqtVersion, "*")
           THEN "lsRemote" ELSE "pipAqt")
  /\ UNCHANGED <<raw, ambient, inputs, internalCacheHit, toolIdx, aqtRevision,
                 autodesktop, qtArchDirs, outputs, exported, addedPaths,
                 warnings, failures, exitCode>>

\* the tag names git ls-remote may print (the text after refs/tags/)
TagListings ==
  { <<>>,
    << <<"v", "3", ".", "2", ".", "1">>, <<"v", "3", ".", "2", ".", "0">>, <<"v", "3", ".", "1", ".", "2", "1">> >>,
    << <<"v", "3", ".", "1", ".", "2", "1">>, <<"v", "3", ".", "2", ".", "0", "^", "{", "}">>, <<"3", ".", "2", ".", "7">> >>,
    << <<"v", "3", ".", "2", ".", "2">>, <<"v", "3", ".", "2", ".", "1", "0">>, <<"v", "3", ".", "3", ".", "0">> >> }

\* main.ts:353-385, called at main.ts:397: getLatestCompatibleVersion; a
\* failure of git ls-remote is caught there, with a warning
LsRemote ==
  /\ pc = "lsRemote"
  /\ \/ \E tags \in TagListings :
          /\ calls' = Append(calls, Call("git ls-remote", <<>>))
          /\ aqtRevision' = latestCompatibleVersion(inputs.aqtVersion, tags)
          /\ warnings' = warnings
     \/ /\ calls' = Append(calls, [Call("git ls-remote", <<>>) EXCEPT !.ok = FALSE])
        /\ aqtRevision' = fallbackVersion(inputs.aqtVersion)
        /\ warnings' = Append(warnings, "tags")
  /\ pc' = "pipAqt"
  /\ UNCHANGED <<raw, ambient, inputs, internalCacheHit, toolIdx, autodesktop,
                 qtArchDirs, outputs, exported, addedPaths, failures, exitCode>>

\* main.ts:391-405: the one pip install of aqtinstall
PipAqt ==
  /\ pc = "pipAqt"
  /\ Await(Call("pip install", pipAqtArgs(inputs, aqtRevision)), "aqtVersion")
  /\ UNCHANGED <<raw, ambient, inputs, internalCacheHit, toolIdx, aqtRevision,
                 autodesktop, qtArchDirs, outputs, exported, addedPaths,
                 warnings, failures, exitCode>>

\* the versions `aqt version` may report, <<>> for an output without one
ReportedAqtVersions == { <<>>, <<"2", ".", "2", ".", "3">>, <<"3", ".", "1", ".", "2", "1">>, <<"3", ".", "2", ".", "1">> }

\* main.ts:407: isAutodesktopSupported()
AqtVersion ==
  /\ pc = "aqtVersion"
  /\ \/ \E reported \in ReportedAqtVersions :
          /\ calls' = Append(calls, Call("aqt version", <<>>))
          /\ autodesktop' = isAutodesktopSupported(reported)
          /\ pc' = "installQt"
     \/ /\ calls' = Append(calls, [Call("aqt version", <<>>) EXCEPT !.ok = FALSE])
        /\ autodesktop' = autodesktop
        /\ pc' = "catch"
  /\ UNCHANGED <<raw, ambient, inputs, internalCacheHit, toolIdx, aqtRevision,
                 qtArchDirs, outputs, exported, addedPaths, warnings, failures,
                 exitCode>>

\* main.ts:409-439: aqt install-qt
InstallQt ==
  /\ pc = "installQt"
  /\ IF inputs.isInstallQtBinaries
     THEN IF inputs.wasm # s_none /\ compareThrows(inputs.version, v6_7_0)
          THEN Throw /\ warnings' = warnings
          ELSE /\ warnings' = warnings \o wasmWarnings(inputs)
               /\ Await(Call("aqt install-qt", installQtArgs(inputs, autodesktop)),
                        "installSrc")
     ELSE Skip("installSrc") /\ warnings' = warnings
  /\ UNCHANGED <<raw, ambient, inputs, internalCacheHit, toolIdx, aqtRevision,
                 autodesktop, qtArchDirs, outputs, exported, addedPaths,
                 failures, exitCode>>

\* main.ts:457-459: aqt install-src
InstallSrc ==
  /\ pc = "installSrc"
  /\ IF inputs.src
     THEN Await(Call("aqt install-src", installFlavorArgs(inputs, inputs.srcArchives, <<>>)),
                "installDoc")
     ELSE Skip("installDoc")
  /\ UNCHANGED <<raw, ambient, inputs, internalCacheHit, toolIdx, aqtRevision,
                 autodesktop, qtArchDirs, outputs, exported, addedPaths,
                 warnings, failures, exitCode>>

\* main.ts:460-462: aqt install-doc
InstallDoc ==
  /\ pc = "installDoc"
  /\ IF inputs.doc
     THEN Await(Call("aqt install-doc",
                     installFlavorArgs(inputs, inputs.docArchives, inputs.docModules)),
                "installExample")
     ELSE Skip("installExample")
  /\ UNCHANGED <<raw, ambient, inputs, internalCacheHit, toolIdx, aqtRevision,
                 autodesktop, qtArchDirs, outputs, exported, addedPaths,
                 warnings, failures, exitCode>>

\* main.ts:463-465: aqt install-example
InstallExample ==
  /\ pc = "installExample"
  /\ IF inputs.example
     THEN Await(Call("aqt install-example",
                     installFlavorArgs(inputs, inputs.exampleArchives, inputs.exampleModules)),
                "installTool")
     ELSE Skip("installTool")
  /\ UNCHANGED <<raw, ambient, inputs, internalCacheHit, toolIdx, aqtRevision,
                 autodesktop, qtArchDirs, outputs, exported, addedPaths,
                 warnings, failures, exitCode>>

\* main.ts:467-477: one aqt install-tool per element of inputs.tools
InstallTool ==
  /\ pc = "installTool"
  /\ IF toolIdx <= Len(inputs.tools)
     THEN /\ Await(Call("aqt install-tool", installToolArgs(inputs, inputs.tools[toolIdx])),
                   "installTool")
          /\ toolIdx' = toolIdx + 1
     ELSE Skip("save") /\ toolIdx' = toolIdx
  /\ UNCHANGED <<raw, ambient, inputs, internalCacheHit, aqtRevision,
                 autodesktop, qtArchDirs, outputs, exported, addedPaths,
                 warnings, failures, exitCode>>

\* the mutant of SaveCache: the store issued after a cache hit too
SaveCacheOnHit ==
  /\ pc = "save"
  /\ IF inputs.cache
     THEN Await(Call("saveCache", <<inputs.dir, cacheKey(inputs, ambient.osRelease)>>),
                "publish")
     ELSE Skip("publish")
  /\ UNCHANGED <<raw, ambient, inputs, internalCacheHit, toolIdx, aqtRevision,
                 autodesktop, qtArchDirs, outputs, exported, addedPaths,
                 warnings, failures, exitCode>>

\* main.ts:480-483: the cache store
SaveCache ==
  /\ pc = "save"
  /\ IF ~internalCacheHit /\ inputs.cache
     THEN Await(Call("saveCache", <<inputs.dir, cacheKey(inputs, ambient.osRelease)>>),
                "publish")
     ELSE Skip("publish")
  /\ UNCHANGED <<raw, ambient, inputs, internalCacheHit, toolIdx, aqtRevision,
                 autodesktop, qtArchDirs, outputs, exported, addedPaths,
                 warnings, failures, exitCode>>

\* what the glob of locateQtArchDir finds: the version/arch directories of
\* the install directory that hold bin/qmake*, in the order of the glob
globQtArchDirs(dir, found) == [i \in 1..Len(found) |-> dir \o found[i]]

\* what toolsPaths finds: the bin-like directories of the install directory
toolsPaths(dir, found) == [i \in 1..Len(found) |-> dir \o found[i]]

\* the value setOrAppendEnvVar exports (main.ts:18-25)
setOrAppendValue(oldValue, value) ==
  IF oldValue # <<>> THEN oldValue \o <<":">> \o value ELSE value

Exported(name, value) == [name |-> name, value |-> value]

\* main.ts:485-512: the synchronous end of run(): tool paths, IQTA_TOOLS,
\* qtPath and the Qt environment.  locateQtArchDir and the version comparison
\* of main.ts:504 may throw, after what precedes them has been written.
Publish ==
  /\ pc = "publish"
  /\ LET dirs == globQtArchDirs(inputs.dir, ambient.qtArchDirs)
           toolPaths == IF inputs.addToolsToPath /\ Len(inputs.tools) > 0
                        THEN toolsPaths(inputs.dir, ambient.toolDirs) ELSE <<>>
           iqta == IF Len(inputs.tools) > 0 /\ inputs.setEnv
                   THEN << Exported("IQTA_TOOLS",
                                    pathResolve(ambient.cwd, inputs.dir, <<"T", "o", "o", "l", "s">>)) >>
                   ELSE <<>>
           qtPath == locateQtArchDir(dirs)
           lib == pathResolve(ambient.cwd, qtPath, <<"l", "i", "b">>)
           libVars ==
             (IF ambient.platform = "linux"
              THEN << Exported("LD_LIBRARY_PATH",
                               setOrAppendValue(ambient.LD_LIBRARY_PATH, lib)) >>
              ELSE <<>>)
             \o (IF ambient.platform # "win32"
                 THEN << Exported("PKG_CONFIG_PATH",
                                  setOrAppendValue(ambient.PKG_CONFIG_PATH,
                                                   pathResolve(ambient.cwd, lib, <<"p", "k", "g", "c", "o", "n", "f", "i", "g">>))) >>
                 ELSE <<>>)
           qtVars ==
             (IF compareVersions(inputs.version, "<", v6_0_0)
              THEN << Exported("Qt5_DIR", pathResolve(ambient.cwd, lib, <<"c", "m", "a", "k", "e">>)) >>
              ELSE <<>>)
             \o << Exported("QT_ROOT_DIR", qtPath),
                   Exported("QT_PLUGIN_PATH", pathResolve(ambient.cwd, qtPath, <<"p", "l", "u", "g", "i", "n", "s">>)),
                   Exported("QML2_IMPORT_PATH", pathResolve(ambient.cwd, qtPath, <<"q", "m", "l">>)) >>
       IN  IF ~inputs.isInstallQtBinaries
           THEN /\ addedPaths' = addedPaths \o toolPaths
                /\ exported' = exported \o iqta
                /\ outputs' = outputs
                /\ qtArchDirs' = qtArchDirs
                /\ pc' = "then"
           ELSE IF locateThrows(dirs)
           THEN /\ addedPaths' = addedPaths \o toolPaths
                /\ exported' = exported \o iqta
                /\ outputs' = outputs
                /\ qtArchDirs' = dirs
                /\ pc' = "catch"
           ELSE /\ outputs' = Append(outputs, Exported("qtPath", qtPath))
                /\ qtArchDirs' = dirs
                /\ IF ~inputs.setEnv
                   THEN /\ addedPaths' = addedPaths \o toolPaths
                        /\ exported' = exported \o iqta
                        /\ pc' = "then"
                   ELSE IF compareThrows(inputs.version, v6_0_0)
                   THEN /\ addedPaths' = addedPaths \o toolPaths
                        /\ exported' = exported \o iqta \o libVars
                        /\ pc' = "catch"
                   ELSE /\ addedPaths' = addedPaths \o toolPaths
                                         \o << pathResolve(ambient.cwd, qtPath, <<"b", "i", "n">>) >>
                        /\ exported' = exported \o iqta \o libVars \o qtVars
                        /\ pc' = "then"
  /\ UNCHANGED <<raw, ambient, inputs, calls, internalCacheHit, toolIdx,
                 aqtRevision, autodesktop, warnings, failures, exitCode>>

\* the mutant of Catch: the handler reports the failure and returns, so the
\* promise chain goes on to its then handler
CatchFallsThrough ==
  /\ pc = "catch"
  /\ failures' = Append(failures, "setFailed")
  /\ exitCode' = exitCode
  /\ pc' = "then"
  /\ UNCHANGED <<raw, ambient, inputs, calls, internalCacheHit, toolIdx,
                 aqtRevision, autodesktop, qtArchDirs, outputs, exported,
                 addedPaths, warnings>>

\* main.ts:516-523: the catch handler: core.setFailed, process.exit(1)
Catch ==
  /\ pc = "catch"
  /\ failures' = Append(failures, "setFailed")
  /\ exitCode' = 1
  /\ pc' = "exited"
  /\ UNCHANGED <<raw, ambient, inputs, calls, internalCacheHit, toolIdx,
                 aqtRevision, autodesktop, qtArchDirs, outputs, exported,
                 addedPaths, warnings>>

\* main.ts:524-526: the then handler: process.exit(0)
Then ==
  /\ pc = "then"
  /\ exitCode' = 0
  /\ pc' = "exited"
  /\ UNCHANGED <<raw, ambient, inputs, calls, internalCacheHit, toolIdx,
                 aqtRevision, autodesktop, qtArchDirs, outputs, exported,
                 addedPaths, warnings, failures>>

(***************************************************************************)
(* The configurations checked: the inputs of the action and the process    *)
(* around it.  Each family varies the inputs one part of the code reads    *)
(* and keeps the others at the values of BaseRaw.                          *)
(***************************************************************************)

BaseRaw ==
  [ n \in { "host", "target", "wasm", "version", "arch", "dir", "modules",
            "archives", "tools", "add-tools-to-path", "extra", "install-deps",
            "cache", "cache-key-prefix", "tools-only", "no-qt-binaries",
            "set-env", "aqtsource", "aqtversion", "py7zrversion", "source",
            "src-archives", "documentation", "doc-modules", "doc-archives",
            "examples", "example-modules", "example-archives" } |->
      CASE n = "target"            -> <<"d", "e", "s", "k", "t", "o", "p">>
        [] n = "wasm"              -> <<"n", "o", "n", "e">>
        [] n = "version"           -> <<"6", ".", "8", ".", "0">>
        [] n = "add-tools-to-path" -> <<"t", "r", "u", "e">>
        [] n = "install-deps"      -> <<"t", "r", "u", "e">>
        [] n = "cache"             -> <<"t", "r", "u", "e">>
        [] n = "cache-key-prefix"  -> <<"i", "n", "s", "t", "a", "l", "l", "-", "q", "t", "-", "a", "c", "t", "i", "o", "n">>
        [] n = "tools-only"        -> <<"f", "a", "l", "s", "e">>
        [] n = "no-qt-binaries"    -> <<"f", "a", "l", "s", "e">>
        [] n = "set-env"           -> <<"t", "r", "u", "e">>
        [] n = "aqtversion"        -> <<"=", "=", "3", ".", "1", ".", "2", "1">>
        [] n = "py7zrversion"      -> <<"=", "=", "1", ".", "0", ".", "*">>
        [] n = "source"            -> <<"f", "a", "l", "s", "e">>
        [] n = "documentation"     -> <<"f", "a", "l", "s", "e">>
        [] n = "examples"          -> <<"f", "a", "l", "s", "e">>
        [] OTHER                   -> <<>> ]

BaseAmbient ==
  [ platform |-> "linux",
    RUNNER_WORKSPACE |-> <<"/", "h", "o", "m", "e", "/", "r", "u", "n", "n", "e", "r", "/", "w", "o", "r", "k", "/", "a", "p", "p">>,
    osRelease |-> <<"6", ".", "5", ".", "0", "-", "1", "0", "2", "5", "-", "a", "z", "u", "r", "e">>,
    cwd |-> <<"/", "h", "o", "m", "e", "/", "r", "u", "n", "n", "e", "r", "/", "w", "o", "r", "k", "/", "a", "p", "p", "/", "a", "p", "p">>,
    LD_LIBRARY_PATH |-> <<>>,
    PKG_CONFIG_PATH |-> <<>>,
    qtArchDirs |-> << <<"/", "6", ".", "8", ".", "0", "/", "g", "c", "c", "_", "6", "4">> >>,
    toolDirs |-> << <<"/", "T", "o", "o", "l", "s", "/", "C", "M", "a", "k", "e", "/", "b", "i", "n">> >> ]

Platforms == {"win32", "darwin", "linux"}

\* the longest cache-key-prefix and module list tried
MaxPad == 600

\* host, target and wasm inputs, valid and not
EnumConfigs ==
  { << [BaseRaw EXCEPT !["host"] = h, !["target"] = t, !["wasm"] = w,
                       !["cache"] = <<"f", "a", "l", "s", "e">>, !["install-deps"] = <<"f", "a", "l", "s", "e">>],
       BaseAmbient >> :
      h \in {<<>>, <<"w", "i", "n", "d", "o", "w", "s">>, <<"m", "a", "c">>, <<"l", "i", "n", "u", "x">>, <<"W", "i", "n", "d", "o", "w", "s">>},
      t \in {<<>>, <<"d", "e", "s", "k", "t", "o", "p">>, <<"a", "n", "d", "r", "o", "i", "d">>, <<"i", "o", "s">>, <<"w", "a", "s", "m">>},
      w \in {<<>>, <<"n", "o", "n", "e">>, <<"s", "i", "n", "g", "l", "e", "t", "h", "r", "e", "a", "d">>, <<"m", "u", "l", "t", "i", "t", "h", "r", "e", "a", "d">>, <<"t", "r", "u", "e">>} }

\* the host and dir inputs and what stands in for them when they are empty
HostDirConfigs ==
  { << [BaseRaw EXCEPT !["host"] = h, !["dir"] = d,
                       !["cache"] = <<"f", "a", "l", "s", "e">>, !["install-deps"] = <<"f", "a", "l", "s", "e">>],
       [BaseAmbient EXCEPT !.platform = p, !.RUNNER_WORKSPACE = ws] >> :
      h \in {<<>>, <<"w", "i", "n", "d", "o", "w", "s">>, <<"l", "i", "n", "u", "x">>, <<"u", "b", "u", "n", "t", "u">>},
      d \in {<<>>, <<"/", "o", "p", "t">>, <<"b", "u", "i", "l", "d", "/", ".", ".", "/", "o", "u", "t", "/">>},
      p \in Platforms,
      ws \in {<<>>, <<"/", "h", "o", "m", "e", "/", "r", "u", "n", "n", "e", "r", "/", "w", "o", "r", "k", "/", "a", "p", "p">>} }

VersionInputs ==
  { <<"6", ".", "8", ".", "0">>, <<"6", ".", "8", ".", "1">>, <<"6", ".", "1", "0", ".", "0">>, <<"6", ".", "7", ".", "3">>, <<"6", ".", "0", ".", "0">>, <<"5", ".", "1", "5", ".", "0">>, <<"5", ".", "1", "5", ".", "2">>,
    <<"5", ".", "1", "4", ".", "2">>, <<"5", ".", "1", "4", ".", "0">>, <<"5", ".", "1", "3", ".", "9">>, <<"5", ".", "1", "0", ".", "0">>, <<"5", ".", "9", ".", "0">>, <<"5", ".", "8", ".", "9">>, <<"5", ".", "6", ".", "0">>,
    <<"5", ".", "5", ".", "0">>, <<"5", ".", "5", ".", "1">>, <<"6", ".", "8">>, <<"v", "6", ".", "8", ".", "0">>,
    <<>>, <<"l", "a", "t", "e", "s", "t">>, <<"6", ".", "8", ".", "0", ".">>, <<"6", ".", ".", "0">> }

\* the arch defaulting: host, target, arch and version inputs
ArchConfigs ==
  { << [BaseRaw EXCEPT !["host"] = hp[1], !["target"] = t, !["arch"] = a,
                       !["version"] = v,
                       !["cache"] = <<"f", "a", "l", "s", "e">>, !["install-deps"] = <<"f", "a", "l", "s", "e">>],
       [BaseAmbient EXCEPT !.platform = hp[2]] >> :
      hp \in { <<<<>>, "win32">>, <<<<>>, "linux">>, << <<"w", "i", "n", "d", "o", "w", "s">>, "linux" >>,
               << <<"m", "a", "c">>, "win32" >> },
      t \in {<<"d", "e", "s", "k", "t", "o", "p">>, <<"a", "n", "d", "r", "o", "i", "d">>},
      a \in {<<>>, <<"w", "i", "n", "6", "4", "_", "m", "i", "n", "g", "w">>},
      v \in VersionInputs }

\* the dependency installation: install-deps and the version, per platform
DepsConfigs ==
  { << [BaseRaw EXCEPT !["install-deps"] = dep, !["version"] = v,
                       !["cache"] = <<"f", "a", "l", "s", "e">>],
       [BaseAmbient EXCEPT !.platform = p] >> :
      dep \in {<<"t", "r", "u", "e">>, <<"f", "a", "l", "s", "e">>, <<"n", "o", "s", "u", "d", "o">>, <<"N", "o", "S", "u", "d", "o">>, <<"y", "e", "s">>},
      v \in {<<"6", ".", "8", ".", "0">>, <<"6", ".", "4", ".", "3">>, <<"l", "a", "t", "e", "s", "t">>, <<>>},
      p \in Platforms }

\* the cache key: the prefix, the lists and the flags it is built from
KeyConfigs ==
  { << [BaseRaw EXCEPT !["cache-key-prefix"] = pre, !["modules"] = m, !["tools"] = t,
                       !["source"] = f[1], !["documentation"] = f[2],
                       !["examples"] = f[3],
                       !["src-archives"] = <<"q", "t", "b", "a", "s", "e">>,
                       !["doc-archives"] = <<"q", "t", "d", "o", "c">>,
                       !["doc-modules"] = <<"q", "t", "c", "h", "a", "r", "t", "s">>,
                       !["install-deps"] = <<"f", "a", "l", "s", "e">>],
       BaseAmbient >> :
      pre \in {<<>>, <<"i", "n", "s", "t", "a", "l", "l", "-", "q", "t", "-", "a", "c", "t", "i", "o", "n">>, <<"a", ",", "b">>, Rep("p", 447), Rep("p", 448),
               Rep("p", MaxPad)},
      m \in {<<>>, <<"q", "t", "c", "h", "a", "r", "t", "s", " ", " ", "q", "t", "3", "d">>, Rep("m", MaxPad)},
      t \in {<<>>, <<"t", "o", "o", "l", "s", "_", "i", "f", "w", ",", "q", "t", ".", "t", "o", "o", "l", "s", ".", "i", "f", "w", ".", "4", "7", " ", "t", "o", "o", "l", "s", "_", "n", "i", "n", "j", "a">>},
      f \in { << <<"f", "a", "l", "s", "e">>, <<"f", "a", "l", "s", "e">>, <<"f", "a", "l", "s", "e">> >>, << <<"t", "r", "u", "e">>, <<"f", "a", "l", "s", "e">>, <<"f", "a", "l", "s", "e">> >>,
              << <<"f", "a", "l", "s", "e">>, <<"T", "r", "u", "e">>, <<"t", "r", "u", "e">> >>, << <<"t", "r", "u", "e">>, <<"t", "r", "u", "e">>, <<"t", "r", "u", "e">> >> } }

\* what the globs of the last part of run() find in the install directory
Installed ==
  { << <<>>, <<>> >>,
    << << <<"/", "6", ".", "8", ".", "0", "/", "g", "c", "c", "_", "6", "4">> >>, << <<"/", "T", "o", "o", "l", "s", "/", "C", "M", "a", "k", "e", "/", "b", "i", "n">> >> >>,
    << << <<"/", "6", ".", "8", ".", "0", "/", "g", "c", "c", "_", "6", "4">>, <<"/", "6", ".", "8", ".", "0", "/", "w", "a", "s", "m", "_", "s", "i", "n", "g", "l", "e", "t", "h", "r", "e", "a", "d">>, <<"/", "6", ".", "8", ".", "0", "/", "i", "o", "s">> >>,
       << <<"/", "T", "o", "o", "l", "s", "/", "Q", "t", "C", "r", "e", "a", "t", "o", "r", "/", "b", "i", "n">>, <<"/", "T", "o", "o", "l", "s", "/", "N", "i", "n", "j", "a">> >> >>,
    << << <<"/", "5", ".", "1", "5", ".", "2", "/", "a", "n", "d", "r", "o", "i", "d">>, <<"/", "6", ".", "8", ".", "0", "/", "m", "s", "v", "c", "2", "0", "2", "2", "_", "6", "4">>, <<"/", "6", ".", "8", ".", "0", "/", "a", "n", "d", "r", "o", "i", "d">> >>, <<>> >> }

\* the sequence of run(): caching, dependencies, binaries, tools, the environment
RunConfigs ==
  { << [BaseRaw EXCEPT !["cache"] = c, !["install-deps"] = dep, !["tools-only"] = to,
                       !["set-env"] = se, !["add-tools-to-path"] = atp,
                       !["tools"] = t],
       [BaseAmbient EXCEPT !.platform = pl[1], !.LD_LIBRARY_PATH = pl[2],
                           !.qtArchDirs = fs[1], !.toolDirs = fs[2]] >> :
      c \in {<<"t", "r", "u", "e">>, <<"f", "a", "l", "s", "e">>},
      dep \in {<<"t", "r", "u", "e">>, <<"f", "a", "l", "s", "e">>},
      to \in {<<"f", "a", "l", "s", "e">>, <<"t", "r", "u", "e">>},
      se \in {<<"t", "r", "u", "e">>, <<"f", "a", "l", "s", "e">>},
      atp \in {<<"t", "r", "u", "e">>, <<"f", "a", "l", "s", "e">>},
      t \in {<<>>, <<"t", "o", "o", "l", "s", "_", "i", "f", "w", " ", "t", "o", "o", "l", "s", "_", "n", "i", "n", "j", "a">>},
      pl \in { <<"win32", <<>> >>, <<"linux", <<>> >>, <<"linux", <<"/", "u", "s", "r", "/", "l", "i", "b">> >> },
      fs \in Installed }

\* the installer of aqtinstall, the flavors and the WASM flag
AqtConfigs ==
  { << [BaseRaw EXCEPT !["aqtsource"] = src, !["aqtversion"] = ver, !["wasm"] = w,
                       !["version"] = v, !["no-qt-binaries"] = nb,
                       !["documentation"] = nb, !["doc-modules"] = <<"q", "t", "c", "h", "a", "r", "t", "s">>,
                       !["install-deps"] = <<"f", "a", "l", "s", "e">>],
       BaseAmbient >> :
      src \in {<<>>, <<"g", "i", "t", "+", "h", "t", "t", "p", "s", ":", "/", "/", "g", "i", "t", "h", "u", "b", ".", "c", "o", "m", "/", "K", "i", "d", "e", "v", "/", "a", "q", "t", "i", "n", "s", "t", "a", "l", "l", ".", "g", "i", "t">>, <<"a", "q", "t", "i", "n", "s", "t", "a", "l", "l", "=", "=", "3", ".", "1", ".", "*">>},
      ver \in {<<"=", "=", "3", ".", "2", ".", "*">>, <<"=", "=", "3", ".", "1", ".", "*">>, <<"=", "=", "3", ".", "1", ".", "2", "1">>},
      w \in {<<"n", "o", "n", "e">>, <<"m", "u", "l", "t", "i", "t", "h", "r", "e", "a", "d">>},
      v \in {<<"6", ".", "8", ".", "0">>, <<"6", ".", "6", ".", "3">>},
      nb \in {<<"f", "a", "l", "s", "e">>, <<"t", "r", "u", "e">>} }

\* the WASM flag: the Qt version around 6.7.0, well-formed and not
WasmConfigs ==
  { << [BaseRaw EXCEPT !["wasm"] = w, !["version"] = v, !["aqtversion"] = ver,
                       !["arch"] = <<"w", "a", "s", "m", "_", "m", "u", "l", "t", "i", "t", "h", "r", "e", "a", "d">>,
                       !["install-deps"] = <<"f", "a", "l", "s", "e">>, !["cache"] = <<"f", "a", "l", "s", "e">>],
       BaseAmbient >> :
      w \in {<<"s", "i", "n", "g", "l", "e", "t", "h", "r", "e", "a", "d">>, <<"m", "u", "l", "t", "i", "t", "h", "r", "e", "a", "d">>},
      v \in {<<"6", ".", "7", ".", "0">>, <<"6", ".", "6", ".", "9">>, <<"6", ".", "1", "0", ".", "0">>, <<"l", "a", "t", "e", "s", "t">>, <<>>},
      ver \in {<<"=", "=", "3", ".", "2", ".", "*">>, <<"=", "=", "3", ".", "2", ".", "1">>} }

Configs ==
  EnumConfigs \cup HostDirConfigs \cup ArchConfigs \cup DepsConfigs \cup KeyConfigs
  \cup RunConfigs \cup AqtConfigs \cup WasmConfigs

Init ==
  /\ \E c \in Configs : raw = c[1] /\ ambient = c[2]
  /\ pc = "start"
  /\ inputs = NoInputs
  /\ calls = <<>>
  /\ internalCacheHit = FALSE
  /\ toolIdx = 1
  /\ aqtRevision = <<>>
  /\ autodesktop = FALSE
  /\ qtArchDirs = <<>>
  /\ outputs = <<>>
  /\ exported = <<>>
  /\ addedPaths = <<>>
  /\ warnings = <<>>
  /\ failures = <<>>
  /\ exitCode = -1

Next ==
  \/ Construct
  \/ AptUpdate
  \/ AptInstall
  \/ RestoreCache
  \/ PipPy7zr
  \/ LsRemote
  \/ PipAqt
  \/ AqtVersion
  \/ InstallQt
  \/ InstallSrc
  \/ InstallDoc
  \/ InstallExample
  \/ InstallTool
  \/ SaveCache
  \/ Publish
  \/ Catch
  \/ Then

Spec == Init /\ [][Next]_vars

(***************************************************************************)
(* The claims.                                                             *)
(***************************************************************************)

\* the constructor has returned an Inputs object
Constructed == "host" \in DOMAIN inputs

\* the calls of the log that went to the cache
CacheCalls == {i \in 1..Len(calls) : calls[i].cmd \in {"restoreCache", "saveCache"}}

IsHex64(s) == Len(s) = 64 /\ \A i \in 1..64 : \E k \in 1..16 : HexDigits[k] = s[i]

\* C1: every key handed to the cache has at most 512 characters, whatever
\* the length of cacheKeyPrefix, and when the assembled key is longer than
\* 512 the key is cacheKeyPrefix, "-" and 64 lowercase hexadecimal characters.
C1_KeyAtMost512 ==
  \A i \in CacheCalls :
    LET key == calls[i].args[2]
        prefix == raw["cache-key-prefix"]
    IN  /\ Len(key) <= 512
        /\ Len(assembledKey(inputs, ambient.osRelease)) > 512 =>
             /\ Len(key) = Len(prefix) + 65
             /\ SubSeq(key, 1, Len(prefix) + 1) = prefix \o <<"-">>
             /\ IsHex64(SubSeq(key, Len(prefix) + 2, Len(key)))

\* the values the key is made of, as C2 lists them: the ten scalars, the
\* elements of the four lists, then each flag token, whole, before its lists
C2_Values(in, osRelease) ==
  << in.host, osRelease, in.target, in.wasm, in.arch, in.version, in.dir,
     in.py7zrVersion, in.aqtSource, in.aqtVersion >>
  \o in.modules \o in.archives \o in.extra \o in.tools
  \o (IF in.src THEN << <<"s", "r", "c">> >> ELSE <<>>) \o in.srcArchives
  \o (IF in.doc THEN << <<"d", "o", "c">> >> ELSE <<>>) \o in.docArchives \o in.docModules
  \o (IF in.example THEN << <<"e", "x", "a", "m", "p", "l", "e">> >> ELSE <<>>)
  \o in.exampleArchives \o in.exampleModules

RECURSIVE C2_Segments(_)
C2_Segments(values) ==
  IF values = <<>> THEN <<>>
  ELSE (IF Head(values) # <<>> THEN <<"-">> \o Head(values) ELSE <<>>)
       \o C2_Segments(Tail(values))

\* C2: the key is assembled as cacheKeyPrefix followed by one "-" + value
\* segment for every non-empty value, in the fixed order, a set flag
\* contributing exactly its token ("-src", "-doc", "-example").
C2_KeyAssembly ==
  Constructed =>
    assembledKey(inputs, ambient.osRelease)
      = inputs.cacheKeyPrefix \o C2_Segments(C2_Values(inputs, ambient.osRelease))

\* the numbers of a valid version of digits and dots, a missing one being 0
VersionNumbers(v) ==
  LET segs == VersionSegments(v)
  IN  [i \in 1..3 |-> IF i <= Len(segs) THEN ParseInt(segs[i]) ELSE 0]

\* a version is at least major.minor.patch, by its numbers
AtLeast(v, major, minor, patch) ==
  LET n == VersionNumbers(v)
  IN  \/ n[1] > major
      \/ n[1] = major /\ n[2] > minor
      \/ n[1] = major /\ n[2] = minor /\ n[3] >= patch

\* C4: with an empty arch input, host windows and a target other than
\* android, the arch is the first match of the ladder: >= 6.8.0 msvc2022,
\* >= 5.15.0 msvc2019, < 5.6.0 msvc2013, < 5.9.0 msvc2015, else msvc2017,
\* the versions compared by their numbers.
C4_WindowsLadder ==
  (Constructed /\ raw["arch"] = <<>> /\ inputs.host = s_windows
     /\ inputs.target # s_android) =>
    inputs.arch =
      IF AtLeast(inputs.version, 6, 8, 0) THEN s_win64_msvc2022_64
      ELSE IF AtLeast(inputs.version, 5, 15, 0) THEN s_win64_msvc2019_64
      ELSE IF ~AtLeast(inputs.version, 5, 6, 0) THEN s_win64_msvc2013_64
      ELSE IF ~AtLeast(inputs.version, 5, 9, 0) THEN s_win64_msvc2015_64
      ELSE s_win64_msvc2017_64

\* a windows run of version 5.10.0, which is below 5.6.0 as a string and
\* above 5.9.0 as a version, got msvc2017
C4_Witness ==
  /\ Constructed /\ raw["arch"] = <<>> /\ inputs.host = s_windows
  /\ inputs.target = s_desktop
  /\ inputs.version = <<"5", ".", "1", "0", ".", "0">>
  /\ inputs.arch = s_win64_msvc2017_64

C5_Case(version, arch) ==
  (Constructed /\ raw["arch"] = <<>> /\ inputs.host = s_windows
     /\ inputs.version = version) => inputs.arch = arch

\* C5 as stated: with host windows and an empty arch input the arch is
\* msvc2022 for 6.8.0, msvc2019 for 5.14.2 and msvc2013 for 5.5.0.
C5_Original ==
  /\ C5_Case(<<"6", ".", "8", ".", "0">>, s_win64_msvc2022_64)
  /\ C5_Case(<<"5", ".", "1", "4", ".", "2">>, s_win64_msvc2019_64)
  /\ C5_Case(<<"5", ".", "5", ".", "0">>, s_win64_msvc2013_64)

C5_DesktopCase(version, arch) ==
  (Constructed /\ raw["arch"] = <<>> /\ inputs.host = s_windows
     /\ inputs.target # s_android /\ inputs.version = version) => inputs.arch = arch

\* C5 amended: with host windows, a target other than android and an empty
\* arch input the arch is msvc2022 for 6.8.0, msvc2017 for 5.14.2 and
\* msvc2013 for 5.5.0.
C5_Examples ==
  /\ C5_DesktopCase(<<"6", ".", "8", ".", "0">>, s_win64_msvc2022_64)
  /\ C5_DesktopCase(<<"5", ".", "1", "4", ".", "2">>, s_win64_msvc2017_64)
  /\ C5_DesktopCase(<<"5", ".", "5", ".", "0">>, s_win64_msvc2013_64)

\* a windows desktop run of version 5.14.2 got msvc2017
C5_Witness ==
  /\ Constructed /\ raw["arch"] = <<>> /\ inputs.host = s_windows
  /\ inputs.target = s_desktop
  /\ inputs.version = <<"5", ".", "1", "4", ".", "2">>
  /\ inputs.arch = s_win64_msvc2017_64

\* C6: with an empty arch input and target android the arch is "android"
\* iff 5.14.0 <= version < 6.0.0 and "android_armv7" otherwise, on every
\* host; with an empty arch input, another target and a host other than
\* windows the arch stays empty; a non-empty arch input is kept.
C6_AndroidArch ==
  Constructed =>
    /\ raw["arch"] # <<>> => inputs.arch = raw["arch"]
    /\ (raw["arch"] = <<>> /\ inputs.target = s_android) =>
         inputs.arch =
           IF AtLeast(inputs.version, 5, 14, 0) /\ ~AtLeast(inputs.version, 6, 0, 0)
           THEN s_android ELSE s_android_armv7
    /\ (raw["arch"] = <<>> /\ inputs.target # s_android /\ inputs.host # s_windows) =>
         inputs.arch = <<>>

\* an android run on a windows host, version 5.14.0, got "android"
C6_Witness ==
  /\ Constructed /\ raw["arch"] = <<>> /\ inputs.host = s_windows
  /\ inputs.target = s_android
  /\ inputs.version = v5_14_0
  /\ inputs.arch = s_android

AptCmds == {"apt-get update", "apt-get install", "sudo apt-get update", "sudo apt-get install"}

\* the calls of steps 2 to 6 of the installer: pip, the tag listing, aqt
AqtCmds == {"pip install", "git ls-remote", "aqt version", "aqt install-qt",
            "aqt install-src", "aqt install-doc", "aqt install-example",
            "aqt install-tool"}

CallsOf(cmds) == {i \in 1..Len(calls) : calls[i].cmd \in cmds}

\* a call that returned, or the tag listing, whose failure is caught
WentOn(i) == calls[i].ok \/ calls[i].cmd = "git ls-remote"

\* every call of cmds was issued after a cache lookup that missed, or with
\* caching disabled
OnlyAfterMiss(cmds) ==
  \A i \in CallsOf(cmds) :
    /\ ~internalCacheHit
    /\ inputs.cache => \E j \in 1..(i - 1) : calls[j].cmd = "restoreCache" /\ calls[j].ok

\* every installer call the configuration asks for has been issued and returned
InstallersDone ==
  /\ \A i \in CallsOf(AqtCmds) : WentOn(i)
  /\ Cardinality(CallsOf({"pip install"})) = 2
  /\ Cardinality(CallsOf({"aqt version"})) = 1
  /\ Cardinality(CallsOf({"aqt install-qt"})) = (IF inputs.isInstallQtBinaries THEN 1 ELSE 0)
  /\ Cardinality(CallsOf({"aqt install-src"})) = (IF inputs.src THEN 1 ELSE 0)
  /\ Cardinality(CallsOf({"aqt install-doc"})) = (IF inputs.doc THEN 1 ELSE 0)
  /\ Cardinality(CallsOf({"aqt install-example"})) = (IF inputs.example THEN 1 ELSE 0)
  /\ Cardinality(CallsOf({"aqt install-tool"})) = Len(inputs.tools)

\* the cache store is issued at most once, with caching enabled and after a
\* miss, as the last call, once the installer calls have all returned
StoreOnceAfterInstall ==
  /\ Cardinality(CallsOf({"saveCache"})) <= 1
  /\ \A i \in CallsOf({"saveCache"}) :
       /\ inputs.cache /\ ~internalCacheHit
       /\ i = Len(calls)
       /\ InstallersDone

Published == outputs # <<>> \/ exported # <<>> \/ addedPaths # <<>>

\* nothing is published before the lookup, the installation and the store
PublishedLast ==
  Published =>
    /\ inputs.cache => \E j \in CallsOf({"restoreCache"}) : calls[j].ok
    /\ ~internalCacheHit => InstallersDone
    /\ (inputs.cache /\ ~internalCacheHit) => \E j \in CallsOf({"saveCache"}) : calls[j].ok

\* C7 as stated: every installer call, the Linux dependency installation
\* included, is issued after the cache lookup and only when it missed (or
\* caching is disabled); the cache store is issued at most once, with caching
\* enabled and after a miss, after the installer calls succeeded; outputs and
\* environment variables are published only after that.
C7_Original ==
  Constructed =>
    /\ OnlyAfterMiss(AptCmds \cup AqtCmds)
    /\ StoreOnceAfterInstall
    /\ PublishedLast

\* C7 amended: the Linux dependency installation is issued before the cache
\* lookup, whatever the lookup then answers; every pip and aqt call is issued
\* after the cache lookup and only when it missed (or caching is disabled);
\* the store and the publication are as stated.
C7_RunOrder ==
  Constructed =>
    /\ \A i \in CallsOf(AptCmds) : \A j \in 1..(i - 1) : calls[j].cmd \in AptCmds
    /\ OnlyAfterMiss(AqtCmds)
    /\ StoreOnceAfterInstall
    /\ PublishedLast

\* a run that installed the dependencies, missed the cache, installed,
\* stored and published, and exited with 0
C7_Witness ==
  /\ pc = "exited" /\ exitCode = 0
  /\ CallsOf(AptCmds) # {}
  /\ CallsOf({"aqt install-qt"}) # {}
  /\ CallsOf({"aqt install-tool"}) # {}
  /\ CallsOf({"saveCache"}) # {}
  /\ outputs # <<>> /\ exported # <<>>

\* C8: an external call that fails, other than the tag listing, is the last
\* call of the run: nothing is issued after it (no retry, no cache store),
\* nothing is published, and the run ends with one reported failure and
\* status 1; after a failed tag listing the run goes on.
C8_FailureAborts ==
  \A i \in 1..Len(calls) :
    IF calls[i].cmd = "git ls-remote"
    THEN (i = Len(calls) /\ ~calls[i].ok) => pc = "pipAqt"
    ELSE ~calls[i].ok =>
           /\ i = Len(calls)
           /\ pc \in {"catch", "exited"}
           /\ ~Published
           /\ pc = "exited" => (exitCode = 1 /\ Len(failures) = 1)

\* a run whose tag listing failed and went on, and whose install-qt failed
\* and ended the run with status 1
C8_Witness ==
  /\ pc = "exited" /\ exitCode = 1 /\ Len(failures) = 1
  /\ \E i \in CallsOf({"git ls-remote"}) : ~calls[i].ok
  /\ calls[Len(calls)].cmd = "aqt install-qt" /\ ~calls[Len(calls)].ok
  /\ inputs.cache

\* the inputs C9 says fail the construction
C9_Invalid ==
  \/ raw["host"] # <<>> /\ raw["host"] \notin {s_windows, s_mac, s_linux}
  \/ raw["target"] \notin {s_desktop, s_android, s_ios}
  \/ raw["wasm"] \notin {s_none, s_singlethread, s_multithread}
  \/ raw["dir"] = <<>> /\ ambient.RUNNER_WORKSPACE = <<>>

\* C9: with an invalid host, target or wasm input, or with neither dir nor
\* workspace root, the construction fails before any external call and
\* nothing is published; an empty host does not fail and resolves from the
\* platform: win32 to windows, darwin to mac, anything else to linux.
C9_ValidationFails ==
  /\ C9_Invalid =>
       /\ ~Constructed
       /\ pc \in {"start", "catch", "exited"}
       /\ calls = <<>> /\ ~Published
       /\ pc = "exited" => (exitCode = 1 /\ Len(failures) = 1)
  /\ (raw["host"] = <<>> /\ ~C9_Invalid /\ IsValidVersion(raw["version"]) /\ pc # "start") =>
       Constructed
  /\ (raw["host"] = <<>> /\ Constructed) =>
       inputs.host = CASE ambient.platform = "win32"  -> s_windows
                       [] ambient.platform = "darwin" -> s_mac
                       [] OTHER                       -> s_linux

\* a run with valid host, target and wasm and neither dir nor workspace
\* root ended with status 1 and no call
C9_Witness ==
  /\ raw["host"] = <<>> /\ raw["target"] = s_desktop /\ raw["wasm"] = s_none
  /\ raw["dir"] = <<>> /\ ambient.RUNNER_WORKSPACE = <<>>
  /\ pc = "exited" /\ exitCode = 1 /\ calls = <<>>

\* C10: with an empty or malformed version input the construction fails,
\* whatever the host, target and arch inputs: no Inputs object with such a
\* version exists and no later step of the run is taken.
C10_VersionRequired ==
  ~IsValidVersion(raw["version"]) =>
    /\ ~Constructed
    /\ pc \in {"start", "catch", "exited"}
    /\ calls = <<>>

\* C11: when setEnv is false the run writes no environment variable and adds
\* nothing to the search path (neither the bin directory of Qt nor any tool
\* directory), whatever the other inputs, add-tools-to-path = true with a
\* non-empty tools list included.
C11_NoSetEnvNoMutation ==
  (Constructed /\ ~getBoolInput(raw["set-env"])) =>
    /\ exported = <<>>
    /\ addedPaths = <<>>

\* the fork indicator, from the raw inputs
C12_ForkIndicator ==
  \/ Includes(raw["aqtsource"], <<"K", "i", "d", "e", "v", "/", "a", "q", "t", "i", "n", "s", "t", "a", "l", "l">>)
  \/ raw["aqtversion"] = <<"=", "=", "3", ".", "2", ".", "*">>

\* the warnings about WASM logged so far
C12_WasmWarnings ==
  Cardinality({k \in 1..Len(warnings) : warnings[k] \in {"wasm-needs-fork", "wasm-needs-qt-6.7"}})

\* the run is past the install-qt step of a cache miss
C12_PastInstallQt ==
  pc \in {"installSrc", "installDoc", "installExample", "installTool"}

\* C12: when binaries are requested and the installer runs, the install-qt
\* invocation carries "--wasm <mode>" iff wasm is not none, the Qt version is
\* at least 6.7.0 and the fork indicator holds; when wasm is not none and the
\* flag is not added, one warning is logged and the invocation is issued with
\* no --wasm flag; when wasm is none there is neither flag nor warning.
C12_WasmFlag ==
  Constructed =>
    /\ (C12_PastInstallQt /\ inputs.isInstallQtBinaries) => CallsOf({"aqt install-qt"}) # {}
    /\ C12_WasmWarnings > 0 => CallsOf({"aqt install-qt"}) # {}
    /\ CallsOf({"aqt install-qt"}) = {} => C12_WasmWarnings = 0
    /\ \A i \in CallsOf({"aqt install-qt"}) :
         LET args == calls[i].args
             flagged == \E k \in 1..(Len(args) - 1) :
                          args[k] = <<"-", "-", "w", "a", "s", "m">> /\ args[k + 1] = raw["wasm"]
             anyFlag == \E k \in 1..Len(args) : args[k] = <<"-", "-", "w", "a", "s", "m">>
         IN  /\ inputs.isInstallQtBinaries
             /\ flagged <=> /\ raw["wasm"] # s_none
                            /\ AtLeast(raw["version"], 6, 7, 0)
                            /\ C12_ForkIndicator
             /\ ~flagged => ~anyFlag
             /\ C12_WasmWarnings = (IF raw["wasm"] # s_none /\ ~flagged THEN 1 ELSE 0)

\* an install-qt invocation with --wasm multithread, version 6.8.0 and
\* aqtversion ==3.2.*, and no warning
C12_Witness ==
  /\ Constructed /\ raw["aqtversion"] = <<"=", "=", "3", ".", "2", ".", "*">> /\ raw["aqtsource"] = <<>>
  /\ raw["wasm"] = s_multithread /\ raw["version"] = v6_8_0
  /\ \E i \in CallsOf({"aqt install-qt"}) :
       \E k \in 1..(Len(calls[i].args) - 1) :
         calls[i].args[k] = <<"-", "-", "w", "a", "s", "m">> /\ calls[i].args[k + 1] = s_multithread
  /\ warnings = <<>>

\* an external call of the run threw, the tag listing (caught in place) aside
C13_CallFailed == \E i \in 1..Len(calls) : ~calls[i].ok /\ calls[i].cmd # "git ls-remote"

\* a step of run() other than an external call throws for these inputs: a
\* version comparison on a version that is none (the dependency list, the
\* WASM flag of a cache miss, Qt5_DIR) or the search of the Qt directory
C13_StepThrows ==
  \/ /\ ~IsValidVersion(inputs.version)
     /\ \/ ambient.platform = "linux" /\ inputs.installDeps # "false"
        \/ inputs.isInstallQtBinaries /\ inputs.wasm # s_none /\ ~internalCacheHit
        \/ inputs.isInstallQtBinaries /\ inputs.setEnv
  \/ inputs.isInstallQtBinaries /\ ambient.qtArchDirs = <<>>

\* some step of the run raised an error that run() did not catch
C13_Raised == ~Constructed \/ C13_CallFailed \/ C13_StepThrows

\* the exit status and the reported failures agree with what the run raised
C13_StatusAgrees ==
  /\ exitCode \in {-1, 0, 1}
  /\ pc = "exited" <=> exitCode # -1
  /\ Len(failures) <= 1
  /\ failures # <<>> <=> exitCode = 1
  /\ exitCode = 0 => failures = <<>> /\ ~C13_Raised
  /\ exitCode = 1 => C13_Raised
  /\ pc = "catch" => C13_Raised
  /\ pc = "then" => ~C13_Raised

\* how many steps of run() and its promise chain are left at most, the
\* install-tool loop counted once
C13_StepsLeft ==
  [ start |-> 17, deps |-> 16, aptInstall |-> 15, restore |-> 14, pip |-> 13,
    lsRemote |-> 12, pipAqt |-> 11, aqtVersion |-> 10, installQt |-> 9,
    installSrc |-> 8, installDoc |-> 7, installExample |-> 6, installTool |-> 5,
    save |-> 4, publish |-> 3, then |-> 1, catch |-> 1, exited |-> 0 ]

\* a measure every step lowers: the steps left, then the tools left to install
C13_Measure ==
  <<C13_StepsLeft[pc], IF Constructed THEN Len(inputs.tools) + 1 - toolIdx ELSE 0>>

\* C13: every run ends with exactly one exit status: each step brings the
\* run nearer to its exit, where it has status 1 iff a step of the run
\* raised an error, a failure being reported exactly once, and status 0
\* otherwise; never status 0 after a reported failure, never status 1
\* without one; once it has a status the run keeps it.
C13_ExitStatus ==
  /\ []C13_StatusAgrees
  /\ [][exitCode = -1]_vars
  /\ [][\/ C13_Measure'[1] < C13_Measure[1]
        \/ /\ C13_Measure'[1] = C13_Measure[1]
           /\ C13_Measure'[2] < C13_Measure[2] /\ C13_Measure'[2] >= 0]_vars

\* a run whose search of the Qt directory raised, after every call returned,
\* ended with status 1 and one reported failure
C13_Witness ==
  /\ pc = "exited" /\ exitCode = 1 /\ Len(failures) = 1
  /\ Constructed /\ ~C13_CallFailed /\ CallsOf({"saveCache"}) # {}
  /\ ambient.qtArchDirs = <<>>

\* the tools sequence of the raw tools input: empty for an empty input, else
\* its space-separated identifiers, in order, a comma in an identifier
\* replaced with a space
C14_Tools ==
  IF Len(raw["tools"]) = 0 THEN <<>>
  ELSE LET ids == Split(raw["tools"], " ")
       IN  [k \in 1..Len(ids) |-> ReplaceAll(ids[k], ",", " ")]

\* the exports of IQTA_TOOLS so far
C14_ToolsExports == {k \in 1..Len(exported) : exported[k].name = "IQTA_TOOLS"}

\* the run got through its installer and publisher steps
C14_Completed == pc = "then" \/ (pc = "exited" /\ exitCode = 0)

\* C14: a run that misses the cache issues one install-tool invocation per
\* element of the tools sequence, in input order, and as many as the
\* sequence is long; an empty tools input gives an empty sequence, no
\* install-tool invocation and no IQTA_TOOLS export even when setEnv is
\* true; IQTA_TOOLS is exported iff tools is non-empty and setEnv is true.
C14_ToolInvocations ==
  Constructed =>
    LET T == CallsOf({"aqt install-tool"})
    IN  /\ inputs.tools = C14_Tools
        /\ Cardinality(T) <= Len(C14_Tools)
        /\ \A i \in T :
             /\ ~internalCacheHit
             /\ calls[i].args[3] = C14_Tools[Cardinality({j \in T : j <= i})]
        /\ (pc \in {"save", "publish", "then"} \/ C14_Completed) =>
             Cardinality(T) = (IF internalCacheHit THEN 0 ELSE Len(C14_Tools))
        /\ Len(raw["tools"]) = 0 =>
             inputs.tools = <<>> /\ T = {} /\ C14_ToolsExports = {}
        /\ Cardinality(C14_ToolsExports) <= 1
        /\ C14_ToolsExports # {} => (Len(C14_Tools) > 0 /\ getBoolInput(raw["set-env"]))
        /\ (C14_Completed /\ Len(C14_Tools) > 0 /\ getBoolInput(raw["set-env"])) =>
             C14_ToolsExports # {}

\* a run that missed the cache, installed its two tools in input order,
\* exported IQTA_TOOLS and ended with status 0
C14_Witness ==
  /\ pc = "exited" /\ exitCode = 0 /\ Constructed /\ inputs.cache /\ ~internalCacheHit
  /\ raw["tools"] = <<"t", "o", "o", "l", "s", "_", "i", "f", "w", " ", "t", "o", "o", "l", "s", "_", "n", "i", "n", "j", "a">>
  /\ LET T == CallsOf({"aqt install-tool"})
     IN  /\ Cardinality(T) = 2
         /\ \E i, j \in T : i < j /\ calls[i].args[3] = <<"t", "o", "o", "l", "s", "_", "i", "f", "w">>
                                 /\ calls[j].args[3] = <<"t", "o", "o", "l", "s", "_", "n", "i", "n", "j", "a">>
  /\ C14_ToolsExports # {}

\* C15: the key handed to the cache never contains a comma: the commas of
\* every field, cacheKeyPrefix and the list inputs included, are replaced
\* with hyphens, in the key returned as assembled and in the hashed form.
C15_NoCommaInKey ==
  \A i \in CacheCalls : ~IncludesChar(calls[i].args[2], ",")

\* the installer calls of the log, in the order they were issued
C16_InstallerCalls ==
  SelectSeq(calls, LAMBDA c : c.cmd \in AqtCmds \ {"git ls-remote"})

\* the installer steps the raw inputs ask for, in the order of C16
C16_Expected ==
  <<"pip install", "pip install", "aqt version">>
  \o (IF ~getBoolInput(raw["tools-only"]) /\ ~getBoolInput(raw["no-qt-binaries"])
      THEN <<"aqt install-qt">> ELSE <<>>)
  \o (IF getBoolInput(raw["source"]) THEN <<"aqt install-src">> ELSE <<>>)
  \o (IF getBoolInput(raw["documentation"]) THEN <<"aqt install-doc">> ELSE <<>>)
  \o (IF getBoolInput(raw["examples"]) THEN <<"aqt install-example">> ELSE <<>>)
  \o [k \in 1..Len(inputs.tools) |-> "aqt install-tool"]

\* what the one pip install of the SDK-fetching tool installs
C16_AqtPackage ==
  IF Len(raw["aqtsource"]) > 0 THEN raw["aqtsource"]
  ELSE IF IncludesChar(raw["aqtversion"], "*")
  THEN <<"g", "i", "t", "+", "h", "t", "t", "p", "s", ":", "/", "/", "g", "i", "t", "h", "u", "b", ".", "c", "o", "m", "/", "K", "i", "d", "e", "v", "/", "a", "q", "t", "i", "n", "s", "t", "a", "l", "l", ".", "g", "i", "t", "@", "v">> \o aqtRevision
  ELSE <<"a", "q", "t", "i", "n", "s", "t", "a", "l", "l">> \o raw["aqtversion"]

\* C16: in a run that misses the cache the installer calls are issued one
\* after another, each awaited before the next, in the order: pip install of
\* py7zr and setuptools; one pip install of the SDK-fetching tool (the custom
\* source if aqtSource is non-empty, else the pinned fork revision if
\* aqtVersion has a wildcard, else the named version); the aqt version
\* probe; install-qt iff binaries are requested; install-src iff src;
\* install-doc iff doc; install-example iff example; the install-tool calls.
\* No step is issued twice and none for an unset flag.
C16_InstallerOrder ==
  Constructed =>
    LET issued == C16_InstallerCalls
        n == Len(issued)
    IN  /\ n <= Len(C16_Expected)
        /\ \A k \in 1..n : issued[k].cmd = C16_Expected[k]
        /\ \A i \in 1..(Len(calls) - 1) : WentOn(i)
        /\ n > 0 => ~internalCacheHit
        /\ n >= 1 => issued[1].args =
                       << <<"s", "e", "t", "u", "p", "t", "o", "o", "l", "s">>, <<"w", "h", "e", "e", "l">>,
                          <<"\"">> \o <<"p", "y", "7", "z", "r">> \o raw["py7zrversion"] \o <<"\"">> >>
        /\ n >= 2 => issued[2].args = << <<"\"">> \o C16_AqtPackage \o <<"\"">> >>
        /\ \A i \in CallsOf({"git ls-remote"}) :
             /\ Len(raw["aqtsource"]) = 0 /\ IncludesChar(raw["aqtversion"], "*")
             /\ i > 1 /\ calls[i - 1].cmd = "pip install"
             /\ i < Len(calls) => calls[i + 1].cmd = "pip install"
        /\ ((pc \in {"save", "publish", "then"} \/ (pc = "exited" /\ exitCode = 0))
            /\ ~internalCacheHit) => n = Len(C16_Expected)

\* a run with a custom aqtsource and a wildcard aqtversion that installed
\* py7zr, the custom source, probed aqt, installed the binaries and is done
\* with its installer steps
C16_Witness ==
  /\ Constructed /\ pc = "publish"
  /\ Len(raw["aqtsource"]) > 0 /\ IncludesChar(raw["aqtversion"], "*")
  /\ [k \in 1..Len(C16_InstallerCalls) |-> C16_InstallerCalls[k].cmd]
       = <<"pip install", "pip install", "aqt version", "aqt install-qt">>
  /\ C16_InstallerCalls[2].args = << <<"\"">> \o raw["aqtsource"] \o <<"\"">> >>

\* a version of three numeric components
C17_WellFormed(v) ==
  LET segs == Split(v, ".")
  IN  Len(segs) = 3 /\ \A k \in 1..3 : IsNumber(segs[k])

\* C17: with an empty aqtSource and a wildcard in aqtVersion, a failed tag
\* listing does not abort the run: a warning is logged, the revision
\* installed is the base of the constraint followed by ".0", a well-formed
\* version of three components (3.2.0 for "==3.2.*"), and the installer
\* steps go on; the same revision is used when no listed tag matches.
C17_FallbackRevision ==
  \A i \in CallsOf({"git ls-remote"}) :
    /\ ~calls[i].ok =>
         /\ \E k \in 1..Len(warnings) : warnings[k] = "tags"
         /\ i = Len(calls) => pc = "pipAqt"
    /\ C17_WellFormed(aqtRevision)
    /\ (~calls[i].ok /\ raw["aqtversion"] = <<"=", "=", "3", ".", "2", ".", "*">>) => aqtRevision = <<"3", ".", "2", ".", "0">>
    /\ \A j \in (i + 1)..Len(calls) :
         calls[j].cmd = "pip install" =>
           calls[j].args = << <<"\"">> \o <<"g", "i", "t", "+", "h", "t", "t", "p", "s", ":", "/", "/", "g", "i", "t", "h", "u", "b", ".", "c", "o", "m", "/", "K", "i", "d", "e", "v", "/", "a", "q", "t", "i", "n", "s", "t", "a", "l", "l", ".", "g", "i", "t", "@", "v">>
                                \o aqtRevision \o <<"\"">> >>

\* the architecture directories the pattern of main.ts:81 accepts:
\* "androi" and any number of "d", "ios", "was" and any number of "m",
\* "msv", any number of "c" and "_arm64"
C18_ParallelArch(archDir) ==
  \E n \in 0..Len(archDir) :
    \/ archDir = <<"a", "n", "d", "r", "o", "i">> \o Rep("d", n)
    \/ archDir = <<"i", "o", "s">>
    \/ archDir = <<"w", "a", "s">> \o Rep("m", n)
    \/ archDir = <<"m", "s", "v">> \o Rep("c", n) \o <<"_", "a", "r", "m", "6", "4">>

\* a candidate /<dir>/<version>/<arch> whose version directory is 6.x.y and
\* whose architecture directory the pattern accepts
C18_Preferred(candidate) ==
  LET parts == Split(candidate, "/")
      versionDir == parts[Len(parts) - 1]
      nums == Split(versionDir, ".")
  IN  /\ Len(nums) = 3 /\ nums[1] = <<"6">> /\ IsNumber(nums[2]) /\ IsNumber(nums[3])
      /\ C18_ParallelArch(parts[Len(parts)])

\* the candidate directories: what the install directory holds
C18_Candidates == [k \in 1..Len(ambient.qtArchDirs) |-> inputs.dir \o ambient.qtArchDirs[k]]

\* the publisher of the run has returned
C18_PublisherOver == pc = "then" \/ (pc = "exited" /\ exitCode = 0)

\* C18: when binaries are requested, on a cache hit as after an
\* installation, qtPath is the first candidate directory with a 6.x.y
\* version directory and an architecture directory of the pattern if there
\* is one, else the first candidate, and always one of the candidates; with
\* no candidate the search raises: qtPath is not set, no environment
\* variable of the publisher is written and the run ends with status 1.
C18_LocatedDirectory ==
  (Constructed /\ inputs.isInstallQtBinaries) =>
    LET cands == C18_Candidates
        preferred == {k \in 1..Len(cands) : C18_Preferred(cands[k])}
    IN  /\ \A o \in 1..Len(outputs) :
             /\ outputs[o].name = "qtPath"
             /\ \E k \in 1..Len(cands) : outputs[o].value = cands[k]
             /\ outputs[o].value =
                  IF preferred # {}
                  THEN cands[CHOOSE k \in preferred : \A j \in preferred : k <= j]
                  ELSE cands[1]
        /\ (C18_PublisherOver /\ Len(cands) > 0) => Len(outputs) = 1
        /\ Len(cands) = 0 =>
             /\ outputs = <<>>
             /\ exported = <<>>
             /\ pc \notin {"then"}
             /\ pc = "exited" => exitCode = 1

\* the inputs behind isInstallQtBinaries, setEnv, addToolsToPath,
\* installDeps and cache
C19_OtherInputs ==
  {"tools-only", "no-qt-binaries", "set-env", "add-tools-to-path", "install-deps", "cache"}

\* the raw inputs with these inputs changed: one of them to another value,
\* or all of them to the same value
C19_Variants ==
  { [raw EXCEPT ![n] = v] : n \in C19_OtherInputs, v \in {<<"t", "r", "u", "e">>, <<"f", "a", "l", "s", "e">>, <<"n", "o", "s", "u", "d", "o">>} }
  \cup { [n \in DOMAIN raw |-> IF n \in C19_OtherInputs THEN v ELSE raw[n]] :
           v \in {<<"t", "r", "u", "e">>, <<"f", "a", "l", "s", "e">>} }

\* C19: the cache key does not depend on isInstallQtBinaries, setEnv,
\* addToolsToPath, installDeps or cache: configurations that differ in these
\* alone have the same key.  So a run that requests the Qt binaries can hit
\* an entry stored under its key by a run that installed none; on a hit no
\* installer call is issued and the run goes on to locate the Qt directory
\* in the restored content.
C19_KeyIgnoresRunOptions ==
  Constructed =>
    /\ pc = "deps" =>
         \A variant \in C19_Variants :
           /\ constructorError(variant, ambient) = ""
           /\ cacheKey(newInputs(variant, ambient), ambient.osRelease)
                = cacheKey(inputs, ambient.osRelease)
    /\ internalCacheHit =>
         /\ inputs.cache
         /\ CallsOf(AqtCmds \cup {"saveCache"}) = {}
         /\ calls[Len(calls)].cmd = "restoreCache" /\ calls[Len(calls)].ok
         /\ pc \in {"save", "publish", "then", "catch", "exited"}
         /\ (inputs.isInstallQtBinaries /\ pc \in {"then", "catch", "exited"}) =>
              IF Len(ambient.qtArchDirs) = 0
              THEN outputs = <<>> /\ pc # "then" /\ exitCode # 0
              ELSE /\ Len(outputs) = 1
                   /\ \E k \in 1..Len(ambient.qtArchDirs) :
                        outputs[1].value = inputs.dir \o ambient.qtArchDirs[k]

\* a run that requests the Qt binaries hit an entry that holds none (its
\* key is also the key of the tools-only run of the same inputs): no
\* installer call was issued, the search of the Qt directory raised and the
\* run ended with status 1
C19_Witness ==
  /\ Constructed /\ inputs.isInstallQtBinaries /\ internalCacheHit
  /\ Len(inputs.tools) > 0 /\ Len(ambient.qtArchDirs) = 0
  /\ cacheKey(newInputs([raw EXCEPT !["tools-only"] = s_true], ambient), ambient.osRelease)
       = calls[Len(calls)].args[2]
  /\ CallsOf(AqtCmds) = {}
  /\ pc = "exited" /\ exitCode = 1 /\ outputs = <<>>
====
